---- MODULE Spec2Model ----
(***************************************************************************)
(* Model of the clock-in page of pulse-shift (TimeClockingPage in          *)
(* src/pulse-shift/src/layouts/MainLayout.tsx): the reminder scheduler     *)
(* effect, the one-shot timer it arms, the clock action and the page data  *)
(* fetch.  Times are milliseconds since local midnight of the current day. *)
(***************************************************************************)
EXTENDS Integers, Sequences, FiniteSets, TLC

VARIABLES
    wall,                     \* what new Date() returns
    ticks,                    \* number of interval ticks delivered so far
    currentTime,              \* useCurrentTime state
    notificationPermission,   \* useState<NotificationPermission>
    browserPermission,        \* what Notification.permission reads
    permPc,                   \* position of the permission effect
    dailySchedule,            \* <<>> (null) or <<schedule>>
    todaysEntries,            \* useState<TimeEntry[]>
    serverEntries,            \* the day's entries held by the API
    serverSchedules,          \* the schedules the API may answer with
    activeReminder,           \* <<>> (null) or <<ActiveReminderInfo>>
    notificationSchedulerId,  \* the ref: <<>> (null) or <<timer>>
    pendingTimers,            \* timers the browser will still fire
    isLoading,
    isRegistering,
    error,                    \* <<>> (null) or <<message>>
    lastRegisteredEntry,      \* <<>> (null) or <<entry>>
    fetchPc,                  \* position of fetchPageData
    clockPc,                  \* position of handleClockTime
    effectPending,            \* a dependency of the scheduler effect changed
    lastStep,                 \* history: the step taken last
    emitted,                  \* history: notifications shown by the last step
    prevReminder,             \* history: activeReminder before the last step
    prevTimers,               \* history: pendingTimers before the last step
    recurringCount,           \* history: recurring notifications shown for
                              \* the reminder that is active
    dispatchFailed,           \* history: new Notification(...) threw in the
                              \* last step
    errorEscaped,             \* history: an exception left the callback the
                              \* last step ran
    prevClockPc,              \* history: clockPc before the last step
    satisfiedTargets,         \* history: the targets of the reminders that
                              \* were cleared because the log satisfied them
    initialShown,             \* history: the targets whose initial
                              \* notification was shown
    initialRepeated,          \* history: those for which it was shown again
    isCurrentlyWorking,       \* the last entry of the log opens a segment
    totalWorkedSecondsToday,  \* worked seconds as last recalculated
    \* ActivityTrackingPage
    dateRange,                \* the selected period of the history
    activitiesHistory,        \* useState<PaginatedActivityItem[]>
    historyCurrentPage,
    historyTotalPages,
    historyHasMore,
    isHistoryLoading,
    historyError,             \* <<>> (null) or <<message>>
    loadingSeenByFetch,       \* isHistoryLoading as the memoised
                              \* fetchActivitiesHistory closed over it
    historyRequests,          \* getPaginatedActivities calls not yet settled
    historyIssued,            \* history: number of requests issued
    lastHistoryCall,          \* history: <<>> or <<the last call of
                              \* fetchActivitiesHistory>>
    \* CoverageReportPage
    reportData,               \* <<>> (null) or <<CoverageReport>>
    reportError,              \* the page's error: <<>> (null) or <<message>>
    isRefreshing,
    isTodayInRange,           \* today lies in the selected period
    reportRequests,           \* getCoverageReport calls not yet settled
    reportIssued,             \* history: number of requests issued
    lastRefresh               \* history: <<>> or <<the last settled refresh>>

vars == <<wall, ticks, currentTime, notificationPermission, browserPermission,
          permPc,
          dailySchedule, todaysEntries, serverEntries, serverSchedules,
          activeReminder, notificationSchedulerId, pendingTimers, isLoading, isRegistering,
          fetchPc, clockPc, effectPending, lastStep, emitted, prevReminder,
          prevTimers, recurringCount, dispatchFailed, errorEscaped, error,
          lastRegisteredEntry, prevClockPc, satisfiedTargets, initialShown,
          initialRepeated, isCurrentlyWorking, totalWorkedSecondsToday,
          dateRange, activitiesHistory, historyCurrentPage, historyTotalPages,
          historyHasMore, isHistoryLoading, historyError, loadingSeenByFetch,
          historyRequests, historyIssued, lastHistoryCall,
          reportData, reportError, isRefreshing, isTodayInRange,
          reportRequests, reportIssued, lastRefresh>>

----------------------------------------------------------------------------
(* Program constants *)

OneMinuteMs == 60000
TwoMinutesMs == 120000
OneHourMs == 3600000
BackdateSlackMs == 100
MsPerMinute == 60 * 1000
MsPerHour == 60 * MsPerMinute

(* Bounds of the model *)

MaxTicks == 8
MaxEntries == 1
MaxNagTicks == 35
MaxResumeEntries == 2
MaxWorkedEntries == 3

\* granularity of the modelled clock and the jump of a suspended page
Quantum == OneMinuteMs \div 2
LongJump == OneHourMs - OneMinuteMs
TickSteps == {Quantum, LongJump}
\* ticks at the pace of the clock, of the recurrence, and after a suspension
NagSteps == {Quantum, TwoMinutesMs, LongJump}
DayEnd == OneHourMs + MaxTicks * Quantum

None == <<>>
Some(x) == <<x>>

EntryType == {"ClockIn", "ClockOut", "BreakStart", "BreakEnd"}

----------------------------------------------------------------------------
(* Schedules the API may return; each time is the HH:mm string, one        *)
(* character per element.                                                   *)

HHMM(a, b, c, d) == <<a, b, ":", c, d>>

ScheduleA == [clockIn    |-> HHMM("0","0","0","1"),
              breakStart |-> HHMM("0","0","0","2"),
              breakEnd   |-> HHMM("0","0","0","3"),
              clockOut   |-> HHMM("0","0","0","5")]

ScheduleB == [clockIn    |-> HHMM("0","0","0","0"),
              breakStart |-> HHMM("0","0","0","3"),
              breakEnd   |-> HHMM("0","0","0","4"),
              clockOut   |-> HHMM("0","0","0","4")]

Schedules == {ScheduleA, ScheduleB}

(* Schedules with fields that are not HH:mm: "0:02", "00h01", "" and "0005" *)

ScheduleNoBreakStart == [ScheduleA EXCEPT !.breakStart = <<"0", ":", "0", "2">>]

ScheduleNoClockIn == [ScheduleA EXCEPT !.clockIn = <<"0", "0", "h", "0", "1">>]

ScheduleNoEnd == [ScheduleA EXCEPT !.breakEnd = <<>>,
                                   !.clockOut = <<"0", "0", "0", "5">>]

MalformedSchedules == {ScheduleNoBreakStart, ScheduleNoClockIn, ScheduleNoEnd}

\* a schedule whose first events lie in the first minutes of the day
ScheduleEarly == [clockIn    |-> HHMM("0","0","0","0"),
                  breakStart |-> HHMM("0","0","0","1"),
                  breakEnd   |-> HHMM("0","0","0","2"),
                  clockOut   |-> HHMM("0","0","0","3")]

Digits == {"0", "1", "2", "3", "4", "5", "6", "7", "8", "9"}

DigitValue(c) ==
    CASE c = "0" -> 0 [] c = "1" -> 1 [] c = "2" -> 2 [] c = "3" -> 3
      [] c = "4" -> 4 [] c = "5" -> 5 [] c = "6" -> 6 [] c = "7" -> 7
      [] c = "8" -> 8 [] c = "9" -> 9

\* variant: the pattern is not tested, the digits found are read as hours and
\* minutes
parseHHMMToDate_NoPattern(timeStr) ==
    LET d == SelectSeq(timeStr, LAMBDA c : c \in Digits)
        n == Len(d)
    IN IF n < 3 THEN None
       ELSE Some((IF n = 3 THEN DigitValue(d[1])
                  ELSE DigitValue(d[n - 3]) * 10 + DigitValue(d[n - 2])) * MsPerHour
                 + (DigitValue(d[n - 1]) * 10 + DigitValue(d[n])) * MsPerMinute)

\* parseHHMMToDate: null unless the string matches ^\d{2}:\d{2}$, otherwise
\* today at hours:minutes:00.000
parseHHMMToDate(timeStr) ==
    IF \/ Len(timeStr) # 5
       \/ timeStr[1] \notin Digits \/ timeStr[2] \notin Digits
       \/ timeStr[3] # ":"
       \/ timeStr[4] \notin Digits \/ timeStr[5] \notin Digits
    THEN None
    ELSE Some((DigitValue(timeStr[1]) * 10 + DigitValue(timeStr[2])) * MsPerHour
              + (DigitValue(timeStr[4]) * 10 + DigitValue(timeStr[5])) * MsPerMinute)

\* RawDailyTimeEntry.entryDate: the API reports an entry's date in the format
\* "DD/MM/YYYY HH:mm"; of today's date only <<HH, mm>> is kept here
DisplayDateString(t) == <<t \div MsPerHour, (t % MsPerHour) \div MsPerMinute>>

\* parseDisplayDateString: new Date(year, month, day, hour, minute)
parseDisplayDateString(dateString) ==
    dateString[1] * MsPerHour + dateString[2] * MsPerMinute

----------------------------------------------------------------------------
(* [...entries].sort((a, b) => a.entryDate - b.entryDate): a stable sort *)

RECURSIVE InsertByDate(_, _)
InsertByDate(sorted, e) ==
    IF sorted = <<>> THEN <<e>>
    ELSE IF sorted[Len(sorted)].entryDate <= e.entryDate
         THEN Append(sorted, e)
         ELSE Append(InsertByDate(SubSeq(sorted, 1, Len(sorted) - 1), e),
                     sorted[Len(sorted)])

RECURSIVE SortByEntryDate(_)
SortByEntryDate(entries) ==
    IF entries = <<>> THEN <<>>
    ELSE InsertByDate(SortByEntryDate(SubSeq(entries, 1, Len(entries) - 1)),
                      entries[Len(entries)])

LastEntry(entries) ==
    LET sortedEntries == SortByEntryDate(entries)
    IN IF Len(sortedEntries) > 0 THEN Some(sortedEntries[Len(sortedEntries)])
       ELSE None

----------------------------------------------------------------------------
(* calculateWorkDuration: the worked seconds and the working status *)

\* variant: only a ClockIn opens a segment
IsWorkStart_ClockInOnly(entryType) == entryType = "ClockIn"

\* entry.entryType === ClockIn || entry.entryType === BreakEnd
IsWorkStart(entryType) == entryType \in {"ClockIn", "BreakEnd"}

\* entry.entryType === ClockOut || entry.entryType === BreakStart
IsWorkStop(entryType) == entryType \in {"ClockOut", "BreakStart"}

\* variant: a closed segment stays open for the next ClockOut or BreakStart
WorkStep_KeepsOpen(acc, entry, isLast) ==
    IF IsWorkStart(entry.entryType)
    THEN [acc EXCEPT !.lastActiveEntryTime = Some(entry.entryDate),
                     !.currentlyWorking = IF isLast THEN TRUE ELSE @]
    ELSE IF IsWorkStop(entry.entryType) /\ acc.lastActiveEntryTime # None
    THEN [acc EXCEPT
            !.calculatedTotalSeconds =
                @ + (entry.entryDate - acc.lastActiveEntryTime[1]) \div 1000,
            !.currentlyWorking = FALSE]
    ELSE acc

\* one pass of the loop body over an entry of the sorted log
WorkStep(acc, entry, isLast) ==
    IF IsWorkStart(entry.entryType)
    THEN [acc EXCEPT !.lastActiveEntryTime = Some(entry.entryDate),
                     !.currentlyWorking = IF isLast THEN TRUE ELSE @]
    ELSE IF IsWorkStop(entry.entryType) /\ acc.lastActiveEntryTime # None
    THEN [acc EXCEPT
            !.calculatedTotalSeconds =
                @ + (entry.entryDate - acc.lastActiveEntryTime[1]) \div 1000,
            !.lastActiveEntryTime = None,
            !.currentlyWorking = FALSE]
    ELSE acc

\* the for loop from index i on
RECURSIVE WorkLoop(_, _, _)
WorkLoop(sortedEntries, i, acc) ==
    IF i > Len(sortedEntries) THEN acc
    ELSE WorkLoop(sortedEntries, i + 1,
                  WorkStep(acc, sortedEntries[i], i = Len(sortedEntries)))

\* the two values calculateWorkDuration hands to its setters
calculateWorkDuration(entries, currentTickTime) ==
    LET acc == WorkLoop(SortByEntryDate(entries), 1,
                        [calculatedTotalSeconds |-> 0, currentlyWorking |-> FALSE,
                         lastActiveEntryTime |-> None])
    IN [isCurrentlyWorking |-> acc.currentlyWorking,
        totalWorkedSecondsToday |->
            IF acc.currentlyWorking /\ acc.lastActiveEntryTime # None
            THEN acc.calculatedTotalSeconds
                   + (currentTickTime - acc.lastActiveEntryTime[1]) \div 1000
            ELSE acc.calculatedTotalSeconds]

\* the effect that recalculates the duration: reset when the log is empty
DurationEffect(entries, now) ==
    IF Len(entries) > 0 THEN calculateWorkDuration(entries, now)
    ELSE [isCurrentlyWorking |-> FALSE, totalWorkedSecondsToday |-> 0]

----------------------------------------------------------------------------
(* The scheduler effect, piece by piece *)

\* variant: the guard forgets the permission
PreconditionsHold_ScheduleOnly(perm, sched) == sched # None

\* the guard: permission granted and a schedule present
PreconditionsHold(perm, sched) == perm = "granted" /\ sched # None

\* variant: no one-minute margin before the target
PointRegistered_NoMargin(reminder, entries) ==
    \E i \in 1..Len(entries) :
        /\ entries[i].entryType = reminder.expectedEntryType
        /\ entries[i].entryDate >= reminder.targetTime

\* step 1, currentEntries.find(...): an entry of the expected type dated at
\* or after targetTime minus one minute
PointRegistered(reminder, entries) ==
    \E i \in 1..Len(entries) :
        /\ entries[i].entryType = reminder.expectedEntryType
        /\ entries[i].entryDate >= reminder.targetTime - OneMinuteMs

\* variant: a reminder never expires
Expired_Never(reminder, now) == FALSE

\* variant: expired already at targetTime plus one hour
Expired_AtOrAfter(reminder, now) == now >= reminder.targetTime + OneHourMs

\* step 1, now > oneHourPastTarget
Expired(reminder, now) == now > reminder.targetTime + OneHourMs

\* variant: due as soon as the last notification lies in the past or present
RecurrenceDue_NoInterval(reminder, now) ==
    now >= reminder.lastNotificationTime

\* variant: due only strictly after two minutes
RecurrenceDue_Strict(reminder, now) ==
    now > reminder.lastNotificationTime + TwoMinutesMs

\* step 1, now >= lastNotificationTime + twoMinutesMs
RecurrenceDue(reminder, now) ==
    now >= reminder.lastNotificationTime + TwoMinutesMs

Target(time, label, text, type, now) ==
    [targetTime |-> time, eventName |-> <<label, text>>,
     expectedEntryType |-> type, lastNotificationTime |-> now,
     isOverdue |-> FALSE]

IsFuture(parsed, now) == parsed # None /\ parsed[1] > now

\* step 2, the three object literals a branch may assign
ToBreakStart(schedule, now) ==
    Some(Target(parseHHMMToDate(schedule.breakStart)[1], "inicio de pausa",
                schedule.breakStart, "BreakStart", now))

ToBreakEnd(schedule, now) ==
    Some(Target(parseHHMMToDate(schedule.breakEnd)[1], "fim de pausa",
                schedule.breakEnd, "BreakEnd", now))

ToClockOut(schedule, now) ==
    Some(Target(parseHHMMToDate(schedule.clockOut)[1], "saida",
                schedule.clockOut, "ClockOut", now))

\* variant: breakStart is targeted before the scheduled clock-in time too
TargetWithNoEntry_AnyTime(schedule, now) ==
    IF IsFuture(parseHHMMToDate(schedule.breakStart), now)
    THEN ToBreakStart(schedule, now)
    ELSE IF IsFuture(parseHHMMToDate(schedule.clockOut), now)
    THEN ToClockOut(schedule, now)
    ELSE None

\* step 2, !lastEntry
TargetWithNoEntry(schedule, now) ==
    LET scheduleClockInTime == parseHHMMToDate(schedule.clockIn)
    IN IF /\ scheduleClockInTime # None /\ now > scheduleClockInTime[1]
          /\ IsFuture(parseHHMMToDate(schedule.breakStart), now)
       THEN ToBreakStart(schedule, now)
       ELSE IF IsFuture(parseHHMMToDate(schedule.clockOut), now)
       THEN ToClockOut(schedule, now)
       ELSE None

\* variant: after a ClockIn only breakStart is ever targeted
TargetAfterClockIn_NoFallback(schedule, now) ==
    IF IsFuture(parseHHMMToDate(schedule.breakStart), now)
    THEN ToBreakStart(schedule, now)
    ELSE None

\* step 2, lastEntry.entryType === EntryType.ClockIn
TargetAfterClockIn(schedule, now) ==
    IF IsFuture(parseHHMMToDate(schedule.breakStart), now)
    THEN ToBreakStart(schedule, now)
    ELSE IF IsFuture(parseHHMMToDate(schedule.breakEnd), now)
    THEN ToBreakEnd(schedule, now)
    ELSE IF IsFuture(parseHHMMToDate(schedule.clockOut), now)
    THEN ToClockOut(schedule, now)
    ELSE None

\* variant: after a BreakStart a passed breakEnd falls back to clockOut
TargetAfterBreakStart_FallsBack(schedule, now) ==
    IF IsFuture(parseHHMMToDate(schedule.breakEnd), now)
    THEN ToBreakEnd(schedule, now)
    ELSE IF IsFuture(parseHHMMToDate(schedule.clockOut), now)
    THEN ToClockOut(schedule, now)
    ELSE None

\* step 2, lastEntry.entryType === EntryType.BreakStart
TargetAfterBreakStart(schedule, now) ==
    IF IsFuture(parseHHMMToDate(schedule.breakEnd), now)
    THEN ToBreakEnd(schedule, now)
    ELSE None

\* step 2, lastEntry.entryType === EntryType.BreakEnd
TargetAfterBreakEnd(schedule, now) ==
    IF IsFuture(parseHHMMToDate(schedule.clockOut), now)
    THEN ToClockOut(schedule, now)
    ELSE None

\* variant: a day that ended with a ClockOut is treated as a day with no entry
NextScheduledEventTarget_ClockOutRestarts(schedule, now, lastEntry) ==
    IF lastEntry = None \/ lastEntry[1].entryType = "ClockOut"
    THEN TargetWithNoEntry(schedule, now)
    ELSE IF lastEntry[1].entryType = "ClockIn"
    THEN TargetAfterClockIn(schedule, now)
    ELSE IF lastEntry[1].entryType = "BreakStart"
    THEN TargetAfterBreakStart(schedule, now)
    ELSE TargetAfterBreakEnd(schedule, now)

\* step 2: the next scheduled event, or null
NextScheduledEventTarget(schedule, now, lastEntry) ==
    IF lastEntry = None
    THEN TargetWithNoEntry(schedule, now)
    ELSE IF lastEntry[1].entryType = "ClockIn"
    THEN TargetAfterClockIn(schedule, now)
    ELSE IF lastEntry[1].entryType = "BreakStart"
    THEN TargetAfterBreakStart(schedule, now)
    ELSE IF lastEntry[1].entryType = "BreakEnd"
    THEN TargetAfterBreakEnd(schedule, now)
    ELSE None

\* variant: one minute before the target
InitialNotificationTime_OneMinute(target) == target.targetTime - OneMinuteMs

\* step 3, initialNotificationTime: two minutes before the target
InitialNotificationTime(target) == target.targetTime - TwoMinutesMs

Notification(kind, reminder, at) ==
    [kind |-> kind, eventName |-> reminder.eventName,
     targetTime |-> reminder.targetTime,
     expectedEntryType |-> reminder.expectedEntryType, at |-> at]

Outcome(reminder, timer, notifications) ==
    [reminder |-> reminder, timer |-> timer, notifications |-> notifications]

\* variant: inside the two-minute window nothing is shown or created
ActOnTarget_NoLateInitial(target, reminder, now, wallNow) ==
    IF target # None /\ reminder = None
          /\ InitialNotificationTime(target[1]) > now
    THEN Outcome(reminder,
                 Some([target |-> target[1],
                       dueAt |-> wallNow + (InitialNotificationTime(target[1]) - now)]),
                 <<>>)
    ELSE Outcome(reminder, None, <<>>)

\* variant: the target is acted on although a reminder is active
ActOnTarget_IgnoresActive(target, reminder, now, wallNow) ==
    IF target # None
    THEN IF InitialNotificationTime(target[1]) > now
         THEN Outcome(reminder,
                      Some([target |-> target[1],
                            dueAt |-> wallNow + (InitialNotificationTime(target[1]) - now)]),
                      <<>>)
         ELSE IF now < target[1].targetTime
         THEN Outcome(Some([target[1] EXCEPT !.lastNotificationTime = wallNow]),
                      None,
                      <<Notification("initial-late", target[1], wallNow)>>)
         ELSE Outcome(reminder, None, <<>>)
    ELSE Outcome(reminder, None, <<>>)

\* step 3: act on the determined target when no reminder is active
ActOnTarget(target, reminder, now, wallNow) ==
    IF target # None /\ reminder = None
    THEN IF InitialNotificationTime(target[1]) > now
         THEN Outcome(reminder,
                      Some([target |-> target[1],
                            dueAt |-> wallNow + (InitialNotificationTime(target[1]) - now)]),
                      <<>>)
         ELSE IF now >= InitialNotificationTime(target[1]) /\ now < target[1].targetTime
         THEN Outcome(Some([target[1] EXCEPT !.lastNotificationTime = wallNow]),
                      None,
                      <<Notification("initial-late", target[1], wallNow)>>)
         ELSE IF now >= target[1].targetTime
         THEN Outcome(Some([target[1] EXCEPT
                              !.lastNotificationTime = now - TwoMinutesMs + BackdateSlackMs,
                              !.isOverdue = TRUE]),
                      None, <<>>)
         ELSE Outcome(reminder, None, <<>>)
    ELSE Outcome(reminder, None, <<>>)

\* variant: the transition does not wait for the target time
OverdueTransition_Always(reminder, out, now) ==
    IF reminder # None /\ ~reminder[1].isOverdue /\ out.reminder # None
    THEN [out EXCEPT !.reminder =
             Some([out.reminder[1] EXCEPT !.isOverdue = TRUE,
                                          !.lastNotificationTime = now])]
    ELSE out

\* variant: the transition keeps the time of the initial notification
OverdueTransition_KeepsTime(reminder, out, now) ==
    IF reminder # None /\ ~reminder[1].isOverdue /\ now >= reminder[1].targetTime
          /\ out.reminder # None
    THEN [out EXCEPT !.reminder = Some([out.reminder[1] EXCEPT !.isOverdue = TRUE])]
    ELSE out

\* step 4: the overdue transition of the reminder the run started with
OverdueTransition(reminder, out, now) ==
    IF reminder # None /\ ~reminder[1].isOverdue /\ now >= reminder[1].targetTime
    THEN IF out.reminder # None
         THEN [out EXCEPT !.reminder =
                  Some([out.reminder[1] EXCEPT !.isOverdue = TRUE,
                                               !.lastNotificationTime = now])]
         ELSE out
    ELSE out

\* one run of the effect body after the timer was cancelled: the reminder it
\* leaves, the timer it arms and the notifications it shows
SchedulerEffect(perm, sched, now, entries, reminder, wallNow) ==
    IF ~PreconditionsHold(perm, sched)
    THEN Outcome(None, None, <<>>)
    ELSE IF reminder # None /\ PointRegistered(reminder[1], entries)
    THEN Outcome(None, None, <<>>)
    ELSE IF reminder # None /\ Expired(reminder[1], now)
    THEN Outcome(None, None, <<>>)
    ELSE IF reminder # None /\ reminder[1].isOverdue
    THEN IF RecurrenceDue(reminder[1], now)
         THEN Outcome(Some([reminder[1] EXCEPT !.lastNotificationTime = now]),
                      None, <<Notification("recurring", reminder[1], wallNow)>>)
         ELSE Outcome(reminder, None, <<>>)
    ELSE OverdueTransition(
             reminder,
             ActOnTarget(NextScheduledEventTarget(sched[1], now, LastEntry(entries)),
                         reminder, now, wallNow),
             now)

\* variant: the timer is not cancelled
ClearTimeout_Keeps(timers, id) == timers

\* clearTimeout(notificationSchedulerId.current)
ClearTimeout(timers, id) == IF id = None THEN timers ELSE timers \ {id[1]}

----------------------------------------------------------------------------
(* State machine.  A state change, the render it causes and the run of   *)
(* the scheduler effect after that render are one uninterrupted sequence:  *)
(* while effectPending holds only Evaluate can take a step.                *)

timeVars == <<wall, ticks, currentTime>>
permVars == <<notificationPermission, browserPermission, permPc>>
fetchVars == <<isLoading, fetchPc>>
clockVars == <<isRegistering, clockPc>>
timerVars == <<notificationSchedulerId, pendingTimers>>
durationVars == <<isCurrentlyWorking, totalWorkedSecondsToday>>
activityVars == <<dateRange, activitiesHistory, historyCurrentPage,
                  historyTotalPages, historyHasMore, isHistoryLoading,
                  historyError, loadingSeenByFetch,
                  historyRequests, historyIssued, lastHistoryCall>>
coverageVars == <<reportData, reportError, isRefreshing, isTodayInRange,
                  reportRequests, reportIssued, lastRefresh>>
\* the state of the pages other than the clocking page
otherPages == <<activityVars, coverageVars>>
\* the state of the clocking page and of the layout around it
clockingPage == <<wall, ticks, currentTime, notificationPermission,
                  browserPermission, permPc, dailySchedule, todaysEntries,
                  serverEntries, serverSchedules, activeReminder,
                  notificationSchedulerId, pendingTimers, isLoading,
                  isRegistering, fetchPc, clockPc, effectPending, lastStep,
                  emitted, prevReminder, prevTimers, recurringCount,
                  dispatchFailed, errorEscaped, error, lastRegisteredEntry,
                  prevClockPc, satisfiedTargets, initialShown,
                  initialRepeated, durationVars>>

\* a target as the histories name it
TargetId(r) == <<r.expectedEntryType, r.targetTime>>

\* the targets the notifications of a step announce as coming
InitialTargets(notifications) ==
    {TargetId(notifications[i]) :
        i \in {k \in DOMAIN notifications : notifications[k].kind # "recurring"}}

\* the run of the effect about to be taken clears a satisfied reminder
ClearsSatisfied ==
    /\ PreconditionsHold(notificationPermission, dailySchedule)
    /\ activeReminder # None
    /\ PointRegistered(activeReminder[1], todaysEntries)

Record(step, notifications, count) ==
    /\ lastStep' = step
    /\ emitted' = notifications
    /\ prevReminder' = activeReminder
    /\ prevTimers' = pendingTimers
    /\ recurringCount' = count
    /\ dispatchFailed' = FALSE
    /\ errorEscaped' = FALSE
    /\ prevClockPc' = clockPc
    /\ satisfiedTargets' = IF step = "Evaluate" /\ ClearsSatisfied
                           THEN satisfiedTargets \cup {TargetId(activeReminder[1])}
                           ELSE satisfiedTargets
    /\ initialShown' = initialShown \cup InitialTargets(notifications)
    /\ initialRepeated' =
           initialRepeated \cup (initialShown \cap InitialTargets(notifications))

History(step, notifications) == Record(step, notifications, recurringCount)

\* the recurring notifications shown so far for the reminder a run leaves
RecurringShown(reminder, out) ==
    IF reminder = None \/ out.reminder = None THEN 0
    ELSE recurringCount + Len(out.notifications)

\* what GET /time-entries/today returns: dates cut to the minute, sorted
getTodaysEntries ==
    SortByEntryDate([i \in 1..Len(serverEntries) |->
        [entryType |-> serverEntries[i].entryType,
         entryDate |-> parseDisplayDateString(serverEntries[i].entryDate)]])

\* what GET /time-entries/schedule/date may carry in result.data
ScheduleResponses == {None} \cup {Some(s) : s \in serverSchedules}

\* the permission effect on mount: what it sets before any other step
MountPermission(browser) ==
    CASE browser = "unsupported" -> "denied"
      [] browser = "granted" -> "granted"
      [] browser = "default" -> "default"
      [] browser = "denied" -> "denied"

\* a call of getPaginatedActivities that has not settled
HistoryRequest(id, range, page, replaceData) ==
    [id |-> id, range |-> range, page |-> page, replaceData |-> replaceData]

\* the period the history opens with
DefaultRange == 1

\* the activity page right after its first render and its mount effects:
\* the effect on [dateRange] has called refreshTableData, whose
\* fetchActivitiesHistory(1, true) saw isHistoryLoading false and issued
\* the first request
ActivityPageMounted ==
    /\ dateRange = DefaultRange
    /\ activitiesHistory = <<>>
    /\ historyCurrentPage = 1
    /\ historyTotalPages = 1
    /\ historyHasMore = TRUE
    /\ isHistoryLoading = TRUE
    /\ historyError = None
    /\ loadingSeenByFetch = FALSE
    /\ historyRequests = {HistoryRequest(1, DefaultRange, 1, TRUE)}
    /\ historyIssued = 1
    /\ lastHistoryCall = None

\* a call of getCoverageReport that has not settled, made by fetchReport
\* or by refreshCurrentDayData
ReportRequest(id, kind) == [id |-> id, kind |-> kind]

\* the coverage page right after its first render and its mount effects:
\* fetchReport is in flight for the current fortnight, which holds today
CoveragePageMounted ==
    /\ reportData = None
    /\ reportError = None
    /\ isRefreshing = FALSE
    /\ isTodayInRange = TRUE
    /\ reportRequests = {ReportRequest(1, "fetchReport")}
    /\ reportIssued = 1
    /\ lastRefresh = None

\* the page right after its first render and its mount effects, opened
\* at time t of the day
PageMountedAt(t) ==
    /\ wall = t
    /\ ticks = 0
    /\ currentTime = t
    /\ \E browser \in {"unsupported", "granted", "default", "denied"} :
          /\ notificationPermission = MountPermission(browser)
          /\ browserPermission = MountPermission(browser)
          /\ permPc = IF browser = "default" THEN "requestPermission" ELSE "done"
    /\ dailySchedule = None
    /\ todaysEntries = <<>>
    /\ activeReminder = None
    /\ notificationSchedulerId = None
    /\ pendingTimers = {}
    /\ isLoading = TRUE
    /\ isRegistering = FALSE
    /\ fetchPc = "getDailySchedule"
    /\ clockPc = "idle"
    /\ effectPending = TRUE
    /\ lastStep = "mount"
    /\ emitted = <<>>
    /\ prevReminder = None
    /\ prevTimers = {}
    /\ recurringCount = 0
    /\ dispatchFailed = FALSE
    /\ errorEscaped = FALSE
    /\ prevClockPc = "idle"
    /\ satisfiedTargets = {}
    /\ initialShown = {}
    /\ initialRepeated = {}
    /\ error = None
    /\ lastRegisteredEntry = None
    /\ isCurrentlyWorking = FALSE
    /\ totalWorkedSecondsToday = 0
    /\ ActivityPageMounted
    /\ CoveragePageMounted

\* the page opened at midnight
PageMounted == PageMountedAt(0)

\* a day that starts with no entry and with well-formed schedules
Init ==
    /\ PageMounted
    /\ serverEntries = <<>>
    /\ serverSchedules = Schedules

\* the logs the API may hold when the page is opened in the first minute of
\* the day: entries of any type, in any order, all reported as 00:00
ResumeLogs ==
    UNION {[1..n -> {[entryType |-> t, entryDate |-> DisplayDateString(0)] :
                        t \in EntryType}] : n \in 0..MaxResumeEntries}

\* the page is opened on a day that already has entries
InitResume ==
    /\ PageMounted
    /\ serverEntries \in ResumeLogs
    /\ serverSchedules = {ScheduleEarly}

\* a day whose schedules carry fields that are not HH:mm
InitMalformed ==
    /\ PageMounted
    /\ serverEntries = <<>>
    /\ serverSchedules = MalformedSchedules

\* the scheduler effect runs: a dependency changed since its last run
Evaluate ==
    /\ effectPending
    /\ LET out == SchedulerEffect(notificationPermission, dailySchedule,
                                  currentTime, todaysEntries, activeReminder, wall)
           cleared == ClearTimeout(pendingTimers, notificationSchedulerId)
       IN /\ activeReminder' = out.reminder
          /\ notificationSchedulerId' = out.timer
          /\ pendingTimers' = IF out.timer = None THEN cleared
                              ELSE cleared \cup {out.timer[1]}
          /\ effectPending' = (out.reminder # activeReminder)
          /\ Record("Evaluate", out.notifications,
                    RecurringShown(activeReminder, out))
    /\ UNCHANGED <<timeVars, permVars, fetchVars, clockVars, dailySchedule,
                   todaysEntries, serverEntries,
                   serverSchedules,
                   error, lastRegisteredEntry, otherPages>>
    /\ LET worked == DurationEffect(todaysEntries, currentTime)
       IN /\ isCurrentlyWorking' = worked.isCurrentlyWorking
          /\ totalWorkedSecondsToday' = worked.totalWorkedSecondsToday

\* the setInterval callback of useCurrentTime: setCurrentTime(new Date())
Tick ==
    /\ ~effectPending
    /\ ticks < MaxTicks
    /\ \E step \in TickSteps :
          /\ currentTime + step >= wall
          /\ currentTime + step <= DayEnd
          /\ wall' = currentTime + step
          /\ currentTime' = currentTime + step
    /\ ticks' = ticks + 1
    /\ effectPending' = TRUE
    /\ History("Tick", <<>>)
    /\ UNCHANGED <<permVars, fetchVars, clockVars, timerVars, dailySchedule,
                   todaysEntries, serverEntries,
                   serverSchedules, activeReminder,
                   error, lastRegisteredEntry, durationVars, otherPages>>

\* the setTimeout callback of step 3; it can run before the next tick only
TimerFire ==
    /\ ~effectPending
    /\ \E t \in pendingTimers :
          /\ t.dueAt <= currentTime + Quantum
          /\ wall' = IF t.dueAt > wall THEN t.dueAt ELSE wall
          /\ pendingTimers' = pendingTimers \ {t}
          /\ activeReminder' = Some([t.target EXCEPT !.lastNotificationTime = wall'])
          /\ Record("TimerFire", <<Notification("initial", t.target, wall')>>, 0)
    /\ effectPending' = TRUE
    /\ UNCHANGED <<ticks, currentTime, permVars, fetchVars, clockVars,
                   notificationSchedulerId, dailySchedule, todaysEntries,
                   serverEntries,
                   serverSchedules,
                   error, lastRegisteredEntry, durationVars, otherPages>>

\* Notification.requestPermission().then(setNotificationPermission)
PermissionAnswered ==
    /\ ~effectPending
    /\ permPc = "requestPermission"
    /\ \E answer \in {"granted", "denied", "default"} :
          /\ notificationPermission' = answer
          /\ browserPermission' = answer
    /\ permPc' = "done"
    /\ effectPending' = (notificationPermission' # notificationPermission)
    /\ History("PermissionAnswered", <<>>)
    /\ UNCHANGED <<timeVars, fetchVars, clockVars, timerVars, dailySchedule,
                   todaysEntries, serverEntries,
                   serverSchedules, activeReminder,
                   error, lastRegisteredEntry, durationVars, otherPages>>

\* fetchPageData: await getDailySchedule(todayStr) resolved
FetchScheduleResolved ==
    /\ ~effectPending
    /\ fetchPc = "getDailySchedule"
    /\ fetchPc' = "getTodaysEntries"
    /\ History("FetchScheduleResolved", <<>>)
    /\ UNCHANGED <<timeVars, permVars, clockVars, timerVars, isLoading,
                   dailySchedule, todaysEntries, serverEntries,
                   serverSchedules, activeReminder,
                   effectPending,
                   error, lastRegisteredEntry, durationVars, otherPages>>

\* fetchPageData: await getTodaysEntries() resolved, both states are set
FetchEntriesResolved ==
    /\ ~effectPending
    /\ fetchPc = "getTodaysEntries"
    /\ \E schedule \in ScheduleResponses : dailySchedule' = schedule
    /\ todaysEntries' = getTodaysEntries
    /\ isLoading' = FALSE
    /\ fetchPc' = "done"
    /\ effectPending' = TRUE
    /\ History("FetchEntriesResolved", <<>>)
    /\ lastRegisteredEntry' = IF Len(getTodaysEntries) > 0
                              THEN Some(getTodaysEntries[Len(getTodaysEntries)])
                              ELSE lastRegisteredEntry
    /\ UNCHANGED <<timeVars, permVars, clockVars, timerVars, serverEntries,
                   serverSchedules,
                   activeReminder,
                   error, durationVars, otherPages>>

\* fetchPageData: either request failed
FetchFailed ==
    /\ ~effectPending
    /\ fetchPc \in {"getDailySchedule", "getTodaysEntries"}
    /\ isLoading' = FALSE
    /\ fetchPc' = "done"
    /\ History("FetchFailed", <<>>)
    /\ error' = Some("Falha ao carregar dados da pagina.")
    /\ UNCHANGED <<timeVars, permVars, clockVars, timerVars, dailySchedule,
                   todaysEntries, serverEntries,
                   serverSchedules, activeReminder, effectPending,
                   lastRegisteredEntry, durationVars, otherPages>>

\* handleClockTime starts: the button is enabled
ClockStart ==
    /\ ~effectPending
    /\ ~isLoading /\ ~isRegistering
    /\ Len(serverEntries) < MaxEntries
    /\ isRegistering' = TRUE
    /\ clockPc' = "clockTime"
    /\ History("ClockStart", <<>>)
    /\ error' = None
    /\ UNCHANGED <<timeVars, permVars, fetchVars, timerVars, dailySchedule,
                   todaysEntries, serverEntries,
                   serverSchedules, activeReminder, effectPending,
                   lastRegisteredEntry, durationVars, otherPages>>

\* await clockTime() resolved: the API recorded an entry of the type it chose
ClockTimeResolved ==
    /\ ~effectPending
    /\ clockPc = "clockTime"
    /\ \E type \in EntryType :
          /\ serverEntries' = Append(serverEntries,
                                     [entryType |-> type,
                                      entryDate |-> DisplayDateString(wall)])
          /\ lastRegisteredEntry' =
                 Some([entryType |-> type,
                       entryDate |-> parseDisplayDateString(DisplayDateString(wall))])
    /\ clockPc' = "getTodaysEntries"
    /\ History("ClockTimeResolved", <<>>)
    /\ UNCHANGED <<serverSchedules, timeVars, permVars, fetchVars, timerVars, isRegistering,
                   dailySchedule, todaysEntries, activeReminder, effectPending,
                   error, durationVars, otherPages>>

\* await getTodaysEntries() resolved: setTodaysEntries(updatedEntries)
ClockEntriesResolved ==
    /\ ~effectPending
    /\ clockPc = "getTodaysEntries"
    /\ todaysEntries' = getTodaysEntries
    /\ clockPc' = "getDailySchedule"
    /\ effectPending' = TRUE
    /\ History("ClockEntriesResolved", <<>>)
    /\ UNCHANGED <<timeVars, permVars, fetchVars, timerVars, isRegistering,
                   dailySchedule, serverEntries,
                   serverSchedules, activeReminder,
                   error, lastRegisteredEntry, durationVars, otherPages>>

\* await getDailySchedule() resolved: the schedule is set, the reminder and
\* the timer are cleared
ClockScheduleResolved ==
    /\ ~effectPending
    /\ clockPc = "getDailySchedule"
    /\ \E schedule \in ScheduleResponses : dailySchedule' = schedule
    /\ activeReminder' = None
    /\ pendingTimers' = ClearTimeout(pendingTimers, notificationSchedulerId)
    /\ notificationSchedulerId' = None
    /\ isRegistering' = FALSE
    /\ clockPc' = "idle"
    /\ effectPending' = (dailySchedule' # None \/ dailySchedule # None
                         \/ activeReminder # None)
    /\ Record("ClockScheduleResolved", <<>>, 0)
    /\ UNCHANGED <<timeVars, permVars, fetchVars, todaysEntries, serverEntries,
                   serverSchedules,
                   error, lastRegisteredEntry, durationVars, otherPages>>

\* variant: the catch block also clears the reminder and the timer
ClockFailed_ClearsReminder ==
    /\ ~effectPending
    /\ clockPc \in {"clockTime", "getTodaysEntries", "getDailySchedule"}
    /\ isRegistering' = FALSE
    /\ clockPc' = "idle"
    /\ activeReminder' = None
    /\ pendingTimers' = ClearTimeout(pendingTimers, notificationSchedulerId)
    /\ notificationSchedulerId' = None
    /\ History("ClockFailed", <<>>)
    /\ error' = Some("Falha ao registrar ponto.")
    /\ UNCHANGED <<timeVars, permVars, fetchVars, dailySchedule,
                   todaysEntries, serverEntries,
                   serverSchedules, effectPending,
                   lastRegisteredEntry, durationVars, otherPages>>

\* handleClockTime: one of its three requests failed
ClockFailed ==
    /\ ~effectPending
    /\ clockPc \in {"clockTime", "getTodaysEntries", "getDailySchedule"}
    /\ isRegistering' = FALSE
    /\ clockPc' = "idle"
    /\ History("ClockFailed", <<>>)
    /\ error' = Some("Falha ao registrar ponto.")
    /\ UNCHANGED <<timeVars, permVars, fetchVars, timerVars, dailySchedule,
                   todaysEntries, serverEntries,
                   serverSchedules, activeReminder, effectPending,
                   lastRegisteredEntry, durationVars, otherPages>>

Next ==
    \/ Evaluate
    \/ Tick
    \/ TimerFire
    \/ PermissionAnswered
    \/ FetchScheduleResolved
    \/ FetchEntriesResolved
    \/ FetchFailed
    \/ ClockStart
    \/ ClockTimeResolved
    \/ ClockEntriesResolved
    \/ ClockScheduleResolved
    \/ ClockFailed

Spec == Init /\ [][Next]_vars

\* a day on which nothing is clocked, its ticks delivered every Quantum or
\* every two minutes, followed until the reminders have run out
TickNag ==
    /\ ~effectPending
    /\ ticks < MaxNagTicks
    /\ \E step \in NagSteps :
          /\ currentTime + step >= wall
          /\ currentTime + step <= DayEnd
          /\ wall' = currentTime + step
          /\ currentTime' = currentTime + step
    /\ ticks' = ticks + 1
    /\ effectPending' = TRUE
    /\ History("Tick", <<>>)
    /\ UNCHANGED <<permVars, fetchVars, clockVars, timerVars, dailySchedule,
                   todaysEntries, serverEntries,
                   serverSchedules, activeReminder,
                   error, lastRegisteredEntry, durationVars, otherPages>>

NextNag ==
    \/ Evaluate
    \/ TickNag
    \/ TimerFire
    \/ PermissionAnswered
    \/ FetchScheduleResolved
    \/ FetchEntriesResolved
    \/ FetchFailed

SpecNag == Init /\ [][NextNag]_vars

SpecMalformed == InitMalformed /\ [][Next]_vars

\* the page is open and the user does not clock
NextIdle ==
    \/ Evaluate
    \/ Tick
    \/ TimerFire
    \/ PermissionAnswered
    \/ FetchScheduleResolved
    \/ FetchEntriesResolved
    \/ FetchFailed

SpecResume == InitResume /\ [][NextIdle]_vars

\* the time of day at which the page is opened on a day that has a log
WorkedOpen == 3 * OneMinuteMs

\* the minutes of the day before the page is opened
WorkedMinutes == {m * OneMinuteMs : m \in 0..2}

\* the logs the API may hold when the page is opened: up to MaxWorkedEntries
\* entries of any type, dated in any of the minutes before, oldest first
\* (getTodaysEntries sorts by date, so another order gives the same page)
WorkedLogs ==
    UNION {{log \in [1..n -> {[entryType |-> t, entryDate |-> DisplayDateString(d)] :
                                 t \in EntryType, d \in WorkedMinutes}] :
              \A i \in 1..(n - 1) :
                  parseDisplayDateString(log[i].entryDate)
                      <= parseDisplayDateString(log[i + 1].entryDate)} :
             n \in 0..MaxWorkedEntries}

\* the page is opened at 00:03 with notifications denied: only the entry
\* log, the clock and the duration effect matter
InitWorked ==
    /\ PageMountedAt(WorkedOpen)
    /\ notificationPermission = "denied"
    /\ serverEntries \in WorkedLogs
    /\ serverSchedules = {ScheduleA}

\* the page shows the worked time while the clock ticks; the user does not
\* clock and no notification is due
NextWorked ==
    \/ Evaluate
    \/ Tick
    \/ FetchScheduleResolved
    \/ FetchEntriesResolved
    \/ FetchFailed

SpecWorked == InitWorked /\ [][NextWorked]_vars

\* the time by which every reminder of the day's schedules has expired
SteadyEnd == OneHourMs + 3 * TwoMinutesMs

\* the logs of a day on which one event was clocked before the page opened
SteadyLogs ==
    {<<>>} \cup {<<[entryType |-> t, entryDate |-> DisplayDateString(0)]>> :
                    t \in EntryType}

\* the page is opened early in the day, with or without an entry
InitSteady ==
    /\ PageMounted
    /\ serverEntries \in SteadyLogs
    /\ serverSchedules = Schedules

\* the setInterval callback while the page stays in the foreground: every
\* tick advances the time by one step of the modelled clock
TickSteady ==
    /\ ~effectPending
    /\ currentTime + Quantum >= wall
    /\ currentTime + Quantum <= SteadyEnd
    /\ wall' = currentTime + Quantum
    /\ currentTime' = currentTime + Quantum
    /\ effectPending' = TRUE
    /\ History("Tick", <<>>)
    /\ UNCHANGED <<ticks, permVars, fetchVars, clockVars, timerVars,
                   dailySchedule, todaysEntries, serverEntries,
                   serverSchedules, activeReminder,
                   error, lastRegisteredEntry, durationVars, otherPages>>

NextSteady ==
    \/ Evaluate
    \/ TickSteady
    \/ TimerFire
    \/ PermissionAnswered
    \/ FetchScheduleResolved
    \/ FetchEntriesResolved
    \/ FetchFailed

\* the interval keeps firing and React runs the effect after every render;
\* nothing obliges the timer callback or the API to come before a tick
SpecSteady ==
    InitSteady /\ [][NextSteady]_vars /\ WF_vars(TickSteady) /\ WF_vars(Evaluate)

\* the user withdraws the permission in the browser's site settings after
\* the page has loaded its data; no code of the page runs
PermissionRevoked ==
    /\ ~effectPending
    /\ ~isLoading
    /\ browserPermission = "granted"
    /\ browserPermission' = "denied"
    /\ History("PermissionRevoked", <<>>)
    /\ UNCHANGED <<timeVars, notificationPermission, permPc, fetchVars,
                   clockVars, timerVars, dailySchedule, todaysEntries,
                   serverEntries,
                   serverSchedules, activeReminder, effectPending,
                   error, lastRegisteredEntry, durationVars, otherPages>>

NextRevoke ==
    \/ Next
    \/ PermissionRevoked

SpecRevoke == Init /\ [][NextRevoke]_vars

(* A browser whose Notification constructor may throw.  Neither the effect *)
(* nor the timer callback wraps new Notification(...) in a try: the        *)
(* exception leaves the callback at that line, and the setActiveReminder   *)
(* that follows it is not reached.  An exception that leaves an effect     *)
(* unmounts the page, there being no error boundary above it.              *)

Unmounted == lastStep = "EvaluateThrows"

\* the scheduler effect runs up to a new Notification(...) that throws
EvaluateThrows ==
    /\ ~Unmounted
    /\ effectPending
    /\ SchedulerEffect(notificationPermission, dailySchedule, currentTime,
                       todaysEntries, activeReminder, wall).notifications # <<>>
    /\ pendingTimers' = ClearTimeout(pendingTimers, notificationSchedulerId)
    /\ notificationSchedulerId' = None
    /\ effectPending' = FALSE
    /\ lastStep' = "EvaluateThrows"
    /\ emitted' = <<>>
    /\ prevReminder' = activeReminder
    /\ prevTimers' = pendingTimers
    /\ dispatchFailed' = TRUE
    /\ errorEscaped' = TRUE
    /\ prevClockPc' = clockPc
    /\ UNCHANGED <<satisfiedTargets, initialShown, initialRepeated>>
    /\ UNCHANGED <<timeVars, permVars, fetchVars, clockVars, dailySchedule,
                   todaysEntries, serverEntries,
                   serverSchedules, activeReminder, recurringCount,
                   error, lastRegisteredEntry, otherPages>>
    /\ LET worked == DurationEffect(todaysEntries, currentTime)
       IN /\ isCurrentlyWorking' = worked.isCurrentlyWorking
          /\ totalWorkedSecondsToday' = worked.totalWorkedSecondsToday

\* the setTimeout callback runs and its new Notification(...) throws
TimerFireThrows ==
    /\ ~Unmounted
    /\ ~effectPending
    /\ \E t \in pendingTimers :
          /\ t.dueAt <= currentTime + Quantum
          /\ wall' = IF t.dueAt > wall THEN t.dueAt ELSE wall
          /\ pendingTimers' = pendingTimers \ {t}
    /\ lastStep' = "TimerFireThrows"
    /\ emitted' = <<>>
    /\ prevReminder' = activeReminder
    /\ prevTimers' = pendingTimers
    /\ dispatchFailed' = TRUE
    /\ errorEscaped' = TRUE
    /\ prevClockPc' = clockPc
    /\ UNCHANGED <<satisfiedTargets, initialShown, initialRepeated>>
    /\ UNCHANGED <<ticks, currentTime, permVars, fetchVars, clockVars,
                   notificationSchedulerId, dailySchedule, todaysEntries,
                   serverEntries,
                   serverSchedules, activeReminder, effectPending, recurringCount,
                   error, lastRegisteredEntry, durationVars, otherPages>>

NextThrows ==
    \/ ~Unmounted /\ Next
    \/ EvaluateThrows
    \/ TimerFireThrows

SpecThrows == Init /\ [][NextThrows]_vars

\* the user has navigated to another page: TimeClockingPage is unmounted
PageLeft == lastStep \in {"Unmount", "TimerFireAfterUnmount"}

\* React unmounts the page between two steps.  useCurrentTime's cleanup
\* clears the interval; the scheduler effect returns no cleanup, so the timer
\* it armed stays with the browser
Unmount ==
    /\ ~PageLeft
    /\ ~effectPending
    /\ History("Unmount", <<>>)
    /\ UNCHANGED <<timeVars, permVars, fetchVars, clockVars, timerVars,
                   dailySchedule, todaysEntries, serverEntries,
                   serverSchedules, activeReminder, effectPending,
                   error, lastRegisteredEntry, durationVars, otherPages>>

\* the setTimeout callback runs after the unmount: the notification is shown;
\* setActiveReminder on the unmounted component changes nothing
TimerFireAfterUnmount ==
    /\ PageLeft
    /\ \E t \in pendingTimers :
          /\ wall' = IF t.dueAt > wall THEN t.dueAt ELSE wall
          /\ pendingTimers' = pendingTimers \ {t}
          /\ Record("TimerFireAfterUnmount",
                    <<Notification("initial", t.target, wall')>>, 0)
    /\ UNCHANGED <<ticks, currentTime, permVars, fetchVars, clockVars,
                   notificationSchedulerId, dailySchedule, todaysEntries,
                   serverEntries, serverSchedules, activeReminder,
                   effectPending, error, lastRegisteredEntry, durationVars, otherPages>>

NextUnmount ==
    \/ ~PageLeft /\ Next
    \/ Unmount
    \/ TimerFireAfterUnmount

SpecUnmount == Init /\ [][NextUnmount]_vars

----------------------------------------------------------------------------
(* Vocabulary of the properties.  An Evaluate step leaves currentTime,     *)
(* todaysEntries, dailySchedule, notificationPermission and wall as they   *)
(* were, so right after it they are the inputs the run read; prevReminder  *)
(* is the reminder it started with.                                        *)

Evaluated == lastStep = "Evaluate"
Ready == notificationPermission = "granted" /\ dailySchedule # None
HadReminder == prevReminder # None

\* the log holds an entry of the reminder's expected type dated at or after
\* its target time minus one minute
SatisfiedByLog(r) ==
    \E i \in DOMAIN todaysEntries :
        /\ todaysEntries[i].entryType = r.expectedEntryType
        /\ todaysEntries[i].entryDate + 60 * 1000 >= r.targetTime

SameTarget(a, b) ==
    /\ a.targetTime = b.targetTime
    /\ a.eventName = b.eventName
    /\ a.expectedEntryType = b.expectedEntryType

\* the target the effect determines from the current inputs
Determined == NextScheduledEventTarget(dailySchedule[1], currentTime,
                                       LastEntry(todaysEntries))

----------------------------------------------------------------------------
\* C1: an evaluation that runs with an active reminder while the entry log
\* holds an entry of the expected type dated at or after targetTime minus one
\* minute sets activeReminder to none and shows no notification.
C1_SatisfactionClears ==
    (Evaluated /\ HadReminder /\ SatisfiedByLog(prevReminder[1]))
        => (activeReminder = None /\ emitted = <<>>)

\* the satisfying entry lies inside the one-minute margin before the target
C1_Witness ==
    /\ Evaluated /\ HadReminder /\ Ready
    /\ SatisfiedByLog(prevReminder[1])
    /\ \A i \in DOMAIN todaysEntries :
          todaysEntries[i].entryDate < prevReminder[1].targetTime
    /\ activeReminder = None

\* C2: an evaluation that finds an active reminder with no satisfying entry
\* clears it, showing nothing, when now is strictly after targetTime plus 60
\* minutes; at targetTime plus 60 minutes or earlier it does not clear it.
C2_ExpiryClears ==
    (Evaluated /\ HadReminder /\ ~SatisfiedByLog(prevReminder[1]))
        => /\ currentTime > prevReminder[1].targetTime + 60 * 60 * 1000
                => (activeReminder = None /\ emitted = <<>>)
           /\ (Ready /\ currentTime <= prevReminder[1].targetTime + 60 * 60 * 1000)
                => activeReminder # None

C2_Witness ==
    /\ Evaluated /\ HadReminder /\ Ready
    /\ ~SatisfiedByLog(prevReminder[1])
    /\ currentTime > prevReminder[1].targetTime + 60 * 60 * 1000
    /\ activeReminder = None

\* C3: for an overdue, unsatisfied, unexpired reminder with
\* lastNotificationTime = T, an evaluation with now in [T, T + 2 min) shows
\* nothing, and one with now >= T + 2 min shows exactly one recurring
\* notification, sets lastNotificationTime to now and keeps the reminder.
C3_RecurrenceCadence ==
    (/\ Evaluated /\ Ready /\ HadReminder
     /\ prevReminder[1].isOverdue
     /\ ~SatisfiedByLog(prevReminder[1])
     /\ currentTime <= prevReminder[1].targetTime + 60 * 60 * 1000)
        => LET T == prevReminder[1].lastNotificationTime
           IN /\ (T <= currentTime /\ currentTime < T + 2 * 60 * 1000)
                   => (emitted = <<>> /\ activeReminder = prevReminder)
              /\ currentTime >= T + 2 * 60 * 1000
                   => /\ Len(emitted) = 1
                      /\ emitted[1].kind = "recurring"
                      /\ SameTarget(emitted[1], prevReminder[1])
                      /\ activeReminder =
                           Some([prevReminder[1] EXCEPT
                                   !.lastNotificationTime = currentTime])

\* the recurring notification shown exactly two minutes after the last one
C3_Witness ==
    /\ Evaluated /\ Ready /\ HadReminder
    /\ prevReminder[1].isOverdue
    /\ currentTime = prevReminder[1].lastNotificationTime + 2 * 60 * 1000
    /\ Len(emitted) = 1
    /\ emitted[1].kind = "recurring"

\* C4: an evaluation with no active reminder that determines a target more
\* than two minutes ahead shows nothing and leaves one timer whose delay
\* ends at targetTime minus two minutes on the clock of that evaluation; no
\* notification is shown before its targetTime minus two minutes; a firing
\* timer shows the initial notification of the determined target and
\* creates its reminder with isOverdue = false.
C4_InitialNotificationTiming ==
    /\ (/\ Evaluated /\ Ready /\ ~HadReminder
        /\ Determined # None
        /\ Determined[1].targetTime - 2 * 60 * 1000 > currentTime)
          => /\ emitted = <<>>
             /\ activeReminder = None
             /\ Cardinality(pendingTimers) = 1
             /\ \A t \in pendingTimers :
                   /\ SameTarget(t.target, Determined[1])
                   /\ t.dueAt - wall =
                        Determined[1].targetTime - 2 * 60 * 1000 - currentTime
    /\ \A i \in DOMAIN emitted :
          emitted[i].at >= emitted[i].targetTime - 2 * 60 * 1000
    /\ lastStep = "TimerFire"
          => /\ Len(emitted) = 1
             /\ emitted[1].kind = "initial"
             /\ prevReminder = None
             /\ activeReminder # None
             /\ ~activeReminder[1].isOverdue
             /\ SameTarget(activeReminder[1], emitted[1])
             /\ Determined # None
             /\ SameTarget(activeReminder[1], Determined[1])

\* the timer fired at targetTime minus two minutes
C4_Witness ==
    /\ lastStep = "TimerFire"
    /\ Len(emitted) = 1
    /\ emitted[1].at = emitted[1].targetTime - 2 * 60 * 1000
    /\ activeReminder # None
    /\ ~activeReminder[1].isOverdue

\* the events of the schedule whose time has passed, none of them
\* satisfied by the log
ScheduledEvents ==
    {[time |-> parseHHMMToDate(dailySchedule[1].breakStart)[1], type |-> "BreakStart"],
     [time |-> parseHHMMToDate(dailySchedule[1].breakEnd)[1], type |-> "BreakEnd"],
     [time |-> parseHHMMToDate(dailySchedule[1].clockOut)[1], type |-> "ClockOut"]}

MissedEvents ==
    {e \in ScheduledEvents :
        /\ e.time <= currentTime
        /\ ~SatisfiedByLog([expectedEntryType |-> e.type, targetTime |-> e.time])}

\* C5: an evaluation with no active reminder, made after a scheduled event
\* time has passed without a satisfying entry, creates a reminder for that
\* passed event with isOverdue = true and a backdated lastNotificationTime
\* (so that the next evaluation shows a recurring notification).
C5_LateStartSeedsOverdue ==
    (Evaluated /\ Ready /\ ~HadReminder /\ MissedEvents # {})
        => /\ activeReminder # None
           /\ activeReminder[1].isOverdue
           /\ \E e \in MissedEvents :
                 /\ activeReminder[1].targetTime = e.time
                 /\ activeReminder[1].expectedEntryType = e.type
           /\ activeReminder[1].lastNotificationTime + 2 * 60 * 1000 <= currentTime + 100

\* C6: an evaluation with no active reminder that determines a target with
\* targetTime - 2 min <= now < targetTime shows the initial notification in
\* that evaluation, creates the reminder of that target with isOverdue =
\* false and leaves no timer pending.
C6_MidWindowStart ==
    (/\ Evaluated /\ Ready /\ ~HadReminder
     /\ Determined # None
     /\ Determined[1].targetTime - 2 * 60 * 1000 <= currentTime
     /\ currentTime < Determined[1].targetTime)
        => /\ Len(emitted) = 1
           /\ emitted[1].kind = "initial-late"
           /\ SameTarget(emitted[1], Determined[1])
           /\ activeReminder # None
           /\ SameTarget(activeReminder[1], Determined[1])
           /\ ~activeReminder[1].isOverdue
           /\ pendingTimers = {}

\* the evaluation replaced a timer armed earlier by the notification
C6_Witness ==
    /\ Evaluated /\ Ready /\ ~HadReminder
    /\ Len(emitted) = 1
    /\ emitted[1].kind = "initial-late"
    /\ currentTime < emitted[1].targetTime
    /\ prevTimers # {}
    /\ activeReminder # None

\* C7: an evaluation that finds an active, unsatisfied, unexpired reminder
\* with isOverdue = false and now >= targetTime sets isOverdue = true and
\* lastNotificationTime = now and shows nothing; a recurring notification is
\* shown only for an overdue reminder, at least two minutes after its
\* lastNotificationTime, which is not before its targetTime.
C7_OverdueTransition ==
    /\ (/\ Evaluated /\ Ready /\ HadReminder
        /\ ~prevReminder[1].isOverdue
        /\ ~SatisfiedByLog(prevReminder[1])
        /\ currentTime <= prevReminder[1].targetTime + 60 * 60 * 1000
        /\ currentTime >= prevReminder[1].targetTime)
          => /\ emitted = <<>>
             /\ activeReminder =
                  Some([prevReminder[1] EXCEPT !.isOverdue = TRUE,
                                               !.lastNotificationTime = currentTime])
    /\ \A i \in DOMAIN emitted :
          emitted[i].kind = "recurring"
            => /\ HadReminder
               /\ prevReminder[1].isOverdue
               /\ prevReminder[1].lastNotificationTime >= prevReminder[1].targetTime
               /\ currentTime >= prevReminder[1].lastNotificationTime + 2 * 60 * 1000

\* the transition of a reminder whose initial notification was shown before
C7_Witness ==
    /\ Evaluated /\ Ready /\ HadReminder
    /\ ~prevReminder[1].isOverdue
    /\ prevReminder[1].lastNotificationTime < currentTime
    /\ activeReminder # None
    /\ activeReminder[1].isOverdue
    /\ activeReminder[1].lastNotificationTime = currentTime

\* C8: after an evaluation that runs while the permission is not 'granted'
\* or the schedule is absent, activeReminder is none and no timer is
\* pending; and no step, evaluation or firing timer, shows a notification
\* while the permission is not granted or the schedule is absent.
C8_Preconditions ==
    /\ (Evaluated /\ ~Ready) => (activeReminder = None /\ pendingTimers = {})
    /\ emitted # <<>> => Ready

\* an evaluation after the clock action lost the schedule
C8_Witness ==
    /\ Evaluated
    /\ notificationPermission = "granted"
    /\ dailySchedule = None
    /\ todaysEntries # <<>>
    /\ currentTime > 0

\* C9: a reminder is created only when none is active, an active reminder is
\* never replaced by a reminder of another target, and no timer is pending
\* while a reminder is active.
C9_AtMostOneReminder ==
    /\ (HadReminder /\ activeReminder # None)
          => SameTarget(prevReminder[1], activeReminder[1])
    /\ lastStep = "TimerFire" => ~HadReminder
    /\ pendingTimers # {} => activeReminder = None

\* an active reminder survived an evaluation whose inputs select another target
C9_Witness ==
    /\ Evaluated /\ Ready /\ HadReminder
    /\ activeReminder # None
    /\ Determined # None
    /\ ~SameTarget(Determined[1], activeReminder[1])

\* C10: at most one timer is pending; after an evaluation the only pending
\* timer is the one that evaluation armed; a pending timer that can fire
\* belongs to the target determined from the current time, entries and
\* schedule, and so does every timer that fired.
C10_OneFreshTimer ==
    /\ Cardinality(pendingTimers) <= 1
    /\ Evaluated =>
          pendingTimers = (IF notificationSchedulerId = None THEN {}
                           ELSE {notificationSchedulerId[1]})
    /\ ~effectPending =>
          \A t \in pendingTimers :
              /\ Ready
              /\ activeReminder = None
              /\ Determined # None
              /\ SameTarget(t.target, Determined[1])
              /\ t.target.lastNotificationTime = currentTime
    /\ lastStep = "TimerFire" =>
          /\ Cardinality(prevTimers) = 1
          /\ pendingTimers = {}
          /\ Ready
          /\ Determined # None
          /\ \A t \in prevTimers : SameTarget(t.target, Determined[1])

\* an evaluation replaced the pending timer by a timer of another target
C10_Witness ==
    /\ Evaluated
    /\ \E t \in pendingTimers : \E u \in prevTimers :
          ~SameTarget(t.target, u.target)

----------------------------------------------------------------------------
\* the step just taken set an active reminder to none
ReminderCleared == HadReminder /\ activeReminder = None

\* C11: in every state reached right after the active reminder was cleared,
\* by the scheduler effect (satisfaction, expiry, loss of permission or
\* schedule) or by the clock action, no one-shot timer for the previous
\* target is pending.
C11_ClearingCancelsTimer ==
    ReminderCleared =>
        \A t \in pendingTimers : ~SameTarget(t.target, prevReminder[1])

\* a run of the effect clears a reminder the entry log satisfies
C11_Witness ==
    /\ Evaluated /\ ReminderCleared
    /\ \E i \in DOMAIN todaysEntries :
          todaysEntries[i].entryType = prevReminder[1].expectedEntryType

----------------------------------------------------------------------------
\* C12: no evaluation with now later than targetTime plus 60 minutes shows a
\* notification for a reminder, also when the time jumped between two ticks,
\* and at most 30 recurring notifications are shown for one reminder.
C12_BoundedNagging ==
    /\ Evaluated =>
          \A i \in DOMAIN emitted :
              currentTime <= emitted[i].targetTime + 60 * 60 * 1000
    /\ recurringCount <= 30

\* the thirtieth recurring notification of a reminder, shown sixty minutes
\* after its target time
C12_Witness ==
    /\ Evaluated /\ HadReminder /\ activeReminder # None
    /\ recurringCount = 30
    /\ Len(emitted) = 1 /\ emitted[1].kind = "recurring"
    /\ currentTime = prevReminder[1].targetTime + 60 * 60 * 1000

----------------------------------------------------------------------------
(* A second run of the effect on the state the first run left: the same    *)
(* now, entries, schedule and permission, and the reminder, the ref and    *)
(* the timers as they are.                                                 *)

SecondRun == SchedulerEffect(notificationPermission, dailySchedule, currentTime,
                             todaysEntries, activeReminder, wall)

SecondRunTimers ==
    LET cleared == ClearTimeout(pendingTimers, notificationSchedulerId)
    IN IF SecondRun.timer = None THEN cleared
       ELSE cleared \cup {SecondRun.timer[1]}

SecondRunChangesNothing ==
    /\ SecondRun.reminder = activeReminder
    /\ SecondRunTimers = pendingTimers
    /\ SecondRun.notifications = <<>>

\* the run just taken created a reminder the entry log already satisfies
CreatedSatisfied ==
    /\ ~HadReminder /\ activeReminder # None
    /\ SatisfiedByLog(activeReminder[1])

\* C13 as stated: a second run right after any run, also one that cleared or
\* created a reminder, leaves activeReminder and the pending timer as the
\* first run left them and shows no notification.
C13_Idempotent == Evaluated => SecondRunChangesNothing

\* C13: a second run right after a run of the effect, with now, entries,
\* schedule and permission unchanged, leaves activeReminder and the pending
\* timer as the first run left them and shows no notification, unless the
\* first run cleared a reminder while permission and schedule are present, or
\* created a reminder the entry log already satisfies.
C13_IdempotentUnlessCleared ==
    (Evaluated /\ ~(ReminderCleared /\ Ready) /\ ~CreatedSatisfied)
        => SecondRunChangesNothing

\* the first run changed the reminder, so React runs the effect once more
C13_Witness ==
    /\ Evaluated /\ effectPending
    /\ activeReminder # None
    /\ ~CreatedSatisfied

----------------------------------------------------------------------------
\* what the run just taken would have produced had new Date() returned w:
\* the reminder it leaves, the timer it arms (its target and its delay) and
\* the notifications it shows
OutcomeAtWall(w) ==
    LET out == SchedulerEffect(notificationPermission, dailySchedule, currentTime,
                               todaysEntries, prevReminder, w)
    IN <<out.reminder,
         IF out.timer = None THEN None
         ELSE Some(<<out.timer[1].target, out.timer[1].dueAt - w>>),
         [i \in DOMAIN out.notifications |->
             <<out.notifications[i].kind, out.notifications[i].eventName>>]>>

\* C14: the outcome of an evaluation (resulting activeReminder with its
\* lastNotificationTime, timer scheduled, notifications shown) depends on
\* (now, entries, schedule, permission, activeReminder) alone: with the wall
\* clock reading what it read, or reading now, the outcome is the same.
C14_Deterministic == Evaluated => OutcomeAtWall(wall) = OutcomeAtWall(currentTime)

----------------------------------------------------------------------------
(* Vocabulary of the claims about target determination.  A run that starts *)
(* with no reminder acts on the target it determined: it arms the timer of *)
(* that target or creates its reminder.                                    *)

\* the time of a slot of the current schedule
Slot(name) == parseHHMMToDate(dailySchedule[1][name])[1]

\* the types of the entries that carry the latest entryDate of the log
LatestTypes ==
    {todaysEntries[i].entryType : i \in
        {k \in DOMAIN todaysEntries :
            \A m \in DOMAIN todaysEntries :
                todaysEntries[m].entryDate <= todaysEntries[k].entryDate}}

Goal(type, name) == Some(<<type, Slot(name)>>)

\* the target the last run acted on: <<expected entry type, target time>>
ActedOn ==
    IF notificationSchedulerId # None /\ notificationSchedulerId[1] \in pendingTimers
    THEN Some(<<notificationSchedulerId[1].target.expectedEntryType,
                notificationSchedulerId[1].target.targetTime>>)
    ELSE IF activeReminder # None
    THEN Some(<<activeReminder[1].expectedEntryType, activeReminder[1].targetTime>>)
    ELSE None

\* a run of the effect with permission and schedule present and no reminder
FreshRun == Evaluated /\ Ready /\ ~HadReminder

\* C15: with no entry recorded today and no reminder active, the target is
\* breakStart (expecting BreakStart) if the scheduled clockIn is before now
\* and breakStart is after now; otherwise clockOut (expecting ClockOut) if
\* clockOut is after now; otherwise there is no target and nothing is armed.
C15_TargetWithNoEntry ==
    (FreshRun /\ todaysEntries = <<>>) =>
        ActedOn = IF Slot("clockIn") < currentTime /\ Slot("breakStart") > currentTime
                  THEN Goal("BreakStart", "breakStart")
                  ELSE IF Slot("clockOut") > currentTime
                  THEN Goal("ClockOut", "clockOut")
                  ELSE None

\* breakStart is still ahead but the scheduled clockIn is not yet behind:
\* the target is clockOut
C15_Witness ==
    /\ FreshRun /\ todaysEntries = <<>>
    /\ Slot("clockIn") >= currentTime /\ Slot("breakStart") > currentTime
    /\ ActedOn = Goal("ClockOut", "clockOut")

\* C16: when the latest entry is a ClockIn and no reminder is active, the
\* target is the first of breakStart, breakEnd, clockOut whose time is still
\* after now, expecting BreakStart, BreakEnd, ClockOut respectively; BreakEnd
\* is targeted once breakStart has passed although no BreakStart was recorded.
C16_TargetAfterClockIn ==
    (FreshRun /\ LatestTypes = {"ClockIn"}) =>
        ActedOn = IF Slot("breakStart") > currentTime
                  THEN Goal("BreakStart", "breakStart")
                  ELSE IF Slot("breakEnd") > currentTime
                  THEN Goal("BreakEnd", "breakEnd")
                  ELSE IF Slot("clockOut") > currentTime
                  THEN Goal("ClockOut", "clockOut")
                  ELSE None

\* breakStart has passed with no BreakStart entry in the log: the end of the
\* break is targeted
C16_Witness ==
    /\ FreshRun /\ LatestTypes = {"ClockIn"}
    /\ \A i \in DOMAIN todaysEntries : todaysEntries[i].entryType # "BreakStart"
    /\ Slot("breakStart") <= currentTime
    /\ ActedOn = Goal("BreakEnd", "breakEnd")

\* C17: when the latest entry is a BreakStart the target is breakEnd
\* (expecting BreakEnd) if breakEnd is still after now and there is none
\* otherwise; when the latest entry is a BreakEnd the target is clockOut
\* (expecting ClockOut) if clockOut is still after now and there is none
\* otherwise; no other slot is used as a fallback.
C17_TargetAfterBreakEntry ==
    /\ (FreshRun /\ LatestTypes = {"BreakStart"}) =>
          ActedOn = IF Slot("breakEnd") > currentTime
                    THEN Goal("BreakEnd", "breakEnd") ELSE None
    /\ (FreshRun /\ LatestTypes = {"BreakEnd"}) =>
          ActedOn = IF Slot("clockOut") > currentTime
                    THEN Goal("ClockOut", "clockOut") ELSE None

\* after a BreakStart the end of the break has passed and clockOut is still
\* ahead: there is no target
C17_Witness ==
    /\ FreshRun /\ LatestTypes = {"BreakStart"}
    /\ Slot("breakEnd") <= currentTime /\ Slot("clockOut") > currentTime
    /\ ActedOn = None

\* C18: once the latest entry is a ClockOut and no reminder is active, no run
\* of the effect arms a timer, creates a reminder or shows a notification,
\* and no timer is left that could do so, whatever the time.
C18_DayComplete ==
    /\ (Evaluated /\ ~HadReminder /\ LatestTypes = {"ClockOut"}) =>
          (activeReminder = None /\ pendingTimers = {} /\ emitted = <<>>)
    /\ (~effectPending /\ activeReminder = None /\ LatestTypes = {"ClockOut"}) =>
          pendingTimers = {}

\* the day is complete while breakStart is still ahead and the scheduled
\* clockIn behind: with no entry this run would have targeted breakStart
C18_Witness ==
    /\ FreshRun /\ LatestTypes = {"ClockOut"}
    /\ Slot("clockIn") < currentTime /\ Slot("breakStart") > currentTime
    /\ activeReminder = None /\ pendingTimers = {}

----------------------------------------------------------------------------
\* the reminder the step that threw had decided on: the one the run of the
\* effect computes, or the one of the timer whose callback ran
DecidedReminder ==
    IF lastStep = "EvaluateThrows"
    THEN SchedulerEffect(notificationPermission, dailySchedule, currentTime,
                         todaysEntries, prevReminder, wall).reminder
    ELSE LET t == CHOOSE t \in prevTimers : t \notin pendingTimers
         IN Some([t.target EXCEPT !.lastNotificationTime = wall])

\* C19: when displaying a notification throws, in the effect or in the timer
\* callback, no error escapes the step and activeReminder ends as the step
\* had decided (reminder created, or lastNotificationTime advanced).
C19_FailureSwallowed ==
    dispatchFailed => (~errorEscaped /\ activeReminder = DecidedReminder)

----------------------------------------------------------------------------
\* C20: once the browser's permission has gone from granted to denied, the
\* next run of the effect leaves no active reminder and no pending timer,
\* and no step attempts a notification.
C20_RevocationDetected ==
    browserPermission = "denied" =>
        /\ emitted = <<>>
        /\ Evaluated => (activeReminder = None /\ pendingTimers = {})

----------------------------------------------------------------------------
(* Vocabulary of the claim about schedule fields that are not HH:mm *)

SlotNames == {"clockIn", "breakStart", "breakEnd", "clockOut"}

\* the text has the form of two digits, a colon, two digits
MatchesHHMM(text) ==
    /\ Len(text) = 5
    /\ text[3] = ":"
    /\ \A i \in {1, 2, 4, 5} : text[i] \in Digits

WellFormedSlot(name) == MatchesHHMM(dailySchedule[1][name])
Ahead(name) == WellFormedSlot(name) /\ Slot(name) > currentTime
Behind(name) == WellFormedSlot(name) /\ Slot(name) < currentTime

\* the target of each case when a field that is not HH:mm is no candidate
GoalSkippingMalformed ==
    IF todaysEntries = <<>>
    THEN IF Behind("clockIn") /\ Ahead("breakStart")
         THEN Goal("BreakStart", "breakStart")
         ELSE IF Ahead("clockOut") THEN Goal("ClockOut", "clockOut") ELSE None
    ELSE IF LatestTypes = {"ClockIn"}
    THEN IF Ahead("breakStart") THEN Goal("BreakStart", "breakStart")
         ELSE IF Ahead("breakEnd") THEN Goal("BreakEnd", "breakEnd")
         ELSE IF Ahead("clockOut") THEN Goal("ClockOut", "clockOut") ELSE None
    ELSE IF LatestTypes = {"BreakStart"}
    THEN IF Ahead("breakEnd") THEN Goal("BreakEnd", "breakEnd") ELSE None
    ELSE IF LatestTypes = {"BreakEnd"}
    THEN IF Ahead("clockOut") THEN Goal("ClockOut", "clockOut") ELSE None
    ELSE None

\* the time is the time of a well-formed field of the current schedule
ValidTargetTime(time) ==
    /\ dailySchedule # None
    /\ \E name \in SlotNames : WellFormedSlot(name) /\ Slot(name) = time

\* C21: a schedule field that is not HH:mm is no candidate: the run acts on
\* the target the remaining candidates of its case give, and no reminder or
\* timer ever carries a target time that is not a well-formed field's time.
C21_MalformedSlotSkipped ==
    /\ (FreshRun /\ Cardinality(LatestTypes) <= 1) => ActedOn = GoalSkippingMalformed
    /\ activeReminder # None => ValidTargetTime(activeReminder[1].targetTime)
    /\ \A t \in pendingTimers : ValidTargetTime(t.target.targetTime)

\* after a ClockIn, with a breakStart field that is not HH:mm, the end of the
\* break is targeted
C21_Witness ==
    /\ FreshRun /\ LatestTypes = {"ClockIn"}
    /\ ~WellFormedSlot("breakStart")
    /\ ActedOn = Goal("BreakEnd", "breakEnd")

----------------------------------------------------------------------------
\* the rearrangements of an entry log
Rearrangements(entries) ==
    {[i \in 1..Len(entries) |-> entries[f[i]]] : f \in Permutations(1..Len(entries))}

\* C22: every rearrangement of the entry log gives the same last entry, the
\* same determined target and the same satisfaction result, also when two
\* entries carry the same entryDate.
C22_EntryOrderIrrelevant ==
    (Ready /\ ~effectPending) =>
        \A p \in Rearrangements(todaysEntries) :
            /\ LastEntry(p) = LastEntry(todaysEntries)
            /\ NextScheduledEventTarget(dailySchedule[1], currentTime, LastEntry(p))
                   = Determined
            /\ \A type \in EntryType :
                   PointRegistered([expectedEntryType |-> type,
                                    targetTime |-> Slot("breakStart")], p)
                   = PointRegistered([expectedEntryType |-> type,
                                      targetTime |-> Slot("breakStart")], todaysEntries)

----------------------------------------------------------------------------
\* the entries the user has recorded so far, as the callback would find them
\* by asking the API
RecordedEntries == getTodaysEntries

\* C23: the timer callback shows the initial notification and creates the
\* reminder only if the user has not recorded the expected event: not when
\* the recorded entries hold an entry that satisfies the target, and not when
\* an entry of the expected type was recorded and the clock action is still
\* refreshing the entry log.
C23_StaleTimerSilent ==
    (lastStep = "TimerFire" /\ emitted # <<>>) =>
        /\ ~PointRegistered(activeReminder[1], RecordedEntries)
        /\ clockPc \in {"getTodaysEntries", "getDailySchedule"} =>
              \A i \in DOMAIN RecordedEntries :
                  RecordedEntries[i].entryType # activeReminder[1].expectedEntryType

----------------------------------------------------------------------------
\* the reminder the run started with is neither satisfied nor expired, and
\* it is either not overdue before its target time or overdue less than two
\* minutes after its last notification
QuietReminder ==
    /\ HadReminder
    /\ ~SatisfiedByLog(prevReminder[1])
    /\ currentTime <= prevReminder[1].targetTime + 60 * 60 * 1000
    /\ \/ ~prevReminder[1].isOverdue /\ currentTime < prevReminder[1].targetTime
       \/ /\ prevReminder[1].isOverdue
          /\ currentTime < prevReminder[1].lastNotificationTime + 2 * 60 * 1000

\* C24: a run that finds an active, unsatisfied, unexpired reminder that is
\* not overdue with now before targetTime, or overdue with now before
\* lastNotificationTime plus two minutes, shows no notification, arms no
\* timer and leaves activeReminder unchanged.
C24_QuietBetweenNotifications ==
    (Evaluated /\ Ready /\ QuietReminder) =>
        /\ emitted = <<>>
        /\ pendingTimers = {}
        /\ notificationSchedulerId = None
        /\ activeReminder = prevReminder

\* an overdue reminder one tick or more after its last notification, the
\* next one not yet due
C24_Witness ==
    /\ Evaluated /\ Ready /\ QuietReminder
    /\ prevReminder[1].isOverdue
    /\ currentTime > prevReminder[1].lastNotificationTime
    /\ recurringCount > 0

----------------------------------------------------------------------------
\* the last step ended a clock action whose clockTime request had resolved
ClockActionEndedAfterEntry ==
    /\ lastStep \in {"ClockScheduleResolved", "ClockFailed"}
    /\ prevClockPc \in {"getTodaysEntries", "getDailySchedule"}

\* C25: a clock action whose clockTime request resolved ends with no active
\* reminder and no pending timer, whether the two refreshes that follow
\* succeed or fail.
C25_ClockingClearsReminder ==
    ClockActionEndedAfterEntry => (activeReminder = None /\ pendingTimers = {})

\* what the claim about a failed clockTime request says stays as it is
UntouchedByFailedClocking ==
    UNCHANGED <<todaysEntries, dailySchedule, lastRegisteredEntry,
                activeReminder, pendingTimers, notificationSchedulerId,
                serverEntries>>

\* C26: the start of the clock action sets isRegistering and nothing of the
\* entry log, schedule, lastRegisteredEntry, activeReminder or timer; when
\* the clockTime request fails the action ends leaving them unchanged, with
\* the error message recorded and isRegistering false; isRegistering holds
\* exactly while the action is between its start and its end.
C26_FailedClockingChangesNothing ==
    /\ [][/\ lastStep' = "ClockStart" =>
                (isRegistering' /\ UntouchedByFailedClocking)
          /\ (lastStep' = "ClockFailed" /\ clockPc = "clockTime") =>
                /\ UntouchedByFailedClocking
                /\ error' # None
                /\ ~isRegistering']_vars
    /\ [](isRegistering <=> clockPc # "idle")

\* the clockTime request failed while a reminder was active: the reminder
\* is still there and the message is recorded
C26_Witness ==
    /\ lastStep = "ClockFailed" /\ prevClockPc = "clockTime"
    /\ activeReminder # None
    /\ error # None
    /\ ~isRegistering

----------------------------------------------------------------------------
\* C27: once a reminder was cleared because the log holds its expected
\* entry, no reminder is active, no timer is pending and no notification is
\* shown for that same target (expected entry type and target time) again.
C27_NoRecreationAfterSatisfaction ==
    /\ activeReminder # None => TargetId(activeReminder[1]) \notin satisfiedTargets
    /\ \A t \in pendingTimers : TargetId(t.target) \notin satisfiedTargets
    /\ \A i \in DOMAIN emitted : TargetId(emitted[i]) \notin satisfiedTargets

----------------------------------------------------------------------------
\* C28: within a session the initial "is coming" notification of one target
\* (expected entry type and target time) is shown at most once, also when the
\* user clocks another event inside the two-minute window before the target.
C28_OneInitialPerTarget == initialRepeated = {}

----------------------------------------------------------------------------
\* the reminder the last evaluation started with was cleared because it
\* expired
ClearedByExpiry ==
    /\ Evaluated /\ HadReminder /\ activeReminder = None
    /\ PreconditionsHold(notificationPermission, dailySchedule)
    /\ ~PointRegistered(prevReminder[1], todaysEntries)
    /\ currentTime > prevReminder[1].targetTime + 60 * 60 * 1000

\* C29: under continuing ticks every active reminder is cleared at some
\* time, and no evaluation with now later than targetTime plus 60 minutes
\* leaves a reminder for that target active or a timer for it pending: the
\* first such evaluation clears it and no later one creates it again.
C29_EveryReminderEnds ==
    /\ [](Evaluated =>
            /\ activeReminder # None =>
                  currentTime <= activeReminder[1].targetTime + 60 * 60 * 1000
            /\ \A t \in pendingTimers :
                  currentTime <= t.target.targetTime + 60 * 60 * 1000)
    /\ (activeReminder # None) ~> (activeReminder = None)

\* a reminder whose entry was never recorded is cleared by the first
\* evaluation after targetTime plus 60 minutes
C29_Witness ==
    /\ ClearedByExpiry
    /\ currentTime = prevReminder[1].targetTime + 60 * 60 * 1000 + Quantum

----------------------------------------------------------------------------
\* the targets step 2 can take from the schedules of the day: <<type, time>>
ScheduleTargets ==
    UNION {{<<"BreakStart", parseHHMMToDate(s.breakStart)[1]>>,
            <<"BreakEnd", parseHHMMToDate(s.breakEnd)[1]>>,
            <<"ClockOut", parseHHMMToDate(s.clockOut)[1]>>} : s \in Schedules}

\* the page data is loaded, the permission is granted and the timer of the
\* initial notification for target x is armed
AwaitingInitial(x) ==
    /\ Ready /\ fetchPc = "done" /\ ~effectPending
    /\ \E t \in pendingTimers : TargetId(t.target) = x

\* the step showed the initial notification for target x inside the two
\* minutes before its time and left a reminder for x that is not overdue
InitialDelivered(x) ==
    /\ \E i \in DOMAIN emitted :
          /\ emitted[i].kind # "recurring"
          /\ TargetId(emitted[i]) = x
          /\ emitted[i].at >= x[2] - 2 * 60 * 1000
          /\ emitted[i].at < x[2]
    /\ activeReminder # None
    /\ TargetId(activeReminder[1]) = x
    /\ ~activeReminder[1].isOverdue

\* C30: once the timer of the initial notification is armed for a target
\* more than two minutes ahead, with the permission granted, the schedule
\* loaded and no entry added afterwards, the initial notification for that
\* target is shown at a time in [targetTime - 2 min, targetTime) and a
\* reminder that is not overdue becomes active, although every tick cancels
\* the timer and arms it again.
C30_InitialEventuallyDelivered ==
    \A x \in ScheduleTargets : AwaitingInitial(x) ~> InitialDelivered(x)

\* the armed target does not rest on the scheduled clock-in still being
\* ahead: the log has an entry, or the clock-in time has passed
TargetStays(x) ==
    /\ AwaitingInitial(x)
    /\ \/ todaysEntries # <<>>
       \/ currentTime > parseHHMMToDate(dailySchedule[1].clockIn)[1]

\* C30 as amended: the delivery holds for a target that step 2 keeps while
\* the time passes: one determined from a log with an entry, or from an
\* empty log after the scheduled clock-in time.
C30_DeliveredWhileTargetStays ==
    \A x \in ScheduleTargets : TargetStays(x) ~> InitialDelivered(x)

\* the tick at targetTime minus two minutes came before the timer callback:
\* the run cancelled the timer and showed the notification itself
C30_Witness ==
    /\ Evaluated
    /\ \E x \in ScheduleTargets :
          /\ InitialDelivered(x)
          /\ \E t \in prevTimers : TargetId(t.target) = x
          /\ currentTime = x[2] - 2 * 60 * 1000
    /\ todaysEntries # <<>>
    /\ pendingTimers = {}

----------------------------------------------------------------------------
\* the entry types a reminder or an armed timer expects
ExpectedTypes ==
    {activeReminder[i].expectedEntryType : i \in DOMAIN activeReminder}
        \cup {t.target.expectedEntryType : t \in pendingTimers}

\* C31: no reminder and no armed timer ever expects a ClockIn; while the log
\* is empty and now is before the scheduled clock-in time, the only event a
\* reminder or a timer can be about is the clock-out.
C31_NoClockInReminder ==
    /\ "ClockIn" \notin ExpectedTypes
    /\ (Ready /\ todaysEntries = <<>> /\ currentTime < Slot("clockIn"))
          => ExpectedTypes \subseteq {"ClockOut"}

\* before the scheduled clock-in time, with an empty log, the run armed the
\* timer of the clock-out
C31_Witness ==
    /\ Evaluated /\ Ready /\ todaysEntries = <<>>
    /\ currentTime < Slot("clockIn")
    /\ Slot("breakStart") > currentTime
    /\ ExpectedTypes = {"ClockOut"}

----------------------------------------------------------------------------
\* C32: once the page is unmounted no timer of the scheduler is pending, no
\* notification is shown and the reminder is not written.
C32_UnmountLeavesNothing ==
    PageLeft => /\ pendingTimers = {}
                /\ emitted = <<>>
                /\ activeReminder = prevReminder

----------------------------------------------------------------------------
\* the step keeps the reminder's identity: target time, event name and
\* expected entry type stay, isOverdue does not go back to false and
\* lastNotificationTime does not decrease
KeepsIdentity ==
    /\ activeReminder'[1].targetTime = activeReminder[1].targetTime
    /\ activeReminder'[1].eventName = activeReminder[1].eventName
    /\ activeReminder'[1].expectedEntryType = activeReminder[1].expectedEntryType
    /\ activeReminder[1].isOverdue => activeReminder'[1].isOverdue
    /\ activeReminder'[1].lastNotificationTime
          >= activeReminder[1].lastNotificationTime

\* C33: a step that starts and ends with an active reminder leaves its
\* targetTime, eventName and expectedEntryType as they were, never turns
\* isOverdue from true to false and never decreases lastNotificationTime.
C33_ReminderIdentityFrozen ==
    [][(activeReminder # None /\ activeReminder' # None) => KeepsIdentity]_vars

\* the run that found the target time reached: the reminder became overdue
\* and its lastNotificationTime moved forward, the rest stayed
C33_Witness ==
    /\ Evaluated /\ HadReminder /\ activeReminder # None
    /\ ~prevReminder[1].isOverdue /\ activeReminder[1].isOverdue
    /\ activeReminder[1].lastNotificationTime > prevReminder[1].lastNotificationTime
    /\ activeReminder[1].targetTime = prevReminder[1].targetTime

----------------------------------------------------------------------------
\* the log as shown, ordered by entryDate
Sorted == SortByEntryDate(todaysEntries)

\* C34: after each recalculation isCurrentlyWorking is true when the log is
\* not empty and every entry carrying its latest entryDate is a ClockIn or a
\* BreakEnd, and false when the log is empty or every such entry is a
\* BreakStart or a ClockOut.
C34_WorkingStatus ==
    Evaluated =>
        /\ (todaysEntries # <<>> /\ LatestTypes \subseteq {"ClockIn", "BreakEnd"})
              => isCurrentlyWorking
        /\ (todaysEntries = <<>> \/ LatestTypes \subseteq {"BreakStart", "ClockOut"})
              => ~isCurrentlyWorking

\* a log of three entries that ends with a BreakEnd: the user is working
C34_Witness ==
    /\ Evaluated /\ Len(todaysEntries) = 3
    /\ LatestTypes = {"BreakEnd"}
    /\ isCurrentlyWorking

----------------------------------------------------------------------------
StartsWork(e) == e.entryType = "ClockIn" \/ e.entryType = "BreakEnd"
StopsWork(e) == e.entryType = "ClockOut" \/ e.entryType = "BreakStart"

\* the sum of f over a finite set of indices
RECURSIVE SumOver(_, _)
SumOver(S, f) ==
    IF S = {} THEN 0
    ELSE LET i == CHOOSE k \in S : TRUE IN f[i] + SumOver(S \ {i}, f)

Seconds(from, to) == (to - from) \div 1000

\* the index of the next ClockOut or BreakStart after entry i, if any
NextStop(i) ==
    LET later == {j \in (i + 1)..Len(Sorted) : StopsWork(Sorted[j])}
    IN IF later = {} THEN 0 ELSE CHOOSE j \in later : \A k \in later : j <= k

\* entry i starts work while no segment is open: it is the first entry or
\* follows a ClockOut or BreakStart
OpensSegment(i) ==
    StartsWork(Sorted[i]) /\ (i = 1 \/ StopsWork(Sorted[i - 1]))

\* a segment runs from the entry that opens it to the next ClockOut or
\* BreakStart of the sorted log
SegmentsToNextStop ==
    SumOver({i \in DOMAIN Sorted : OpensSegment(i) /\ NextStop(i) # 0},
            [i \in DOMAIN Sorted |->
                Seconds(Sorted[i].entryDate,
                        Sorted[IF NextStop(i) = 0 THEN i ELSE NextStop(i)].entryDate)])

\* now minus the date of the entry that opened the segment still open
OpenSegment ==
    IF Sorted # <<>> /\ StartsWork(Sorted[Len(Sorted)])
    THEN LET opener == CHOOSE i \in DOMAIN Sorted :
                          /\ OpensSegment(i)
                          /\ \A k \in DOMAIN Sorted : OpensSegment(k) => k <= i
         IN Seconds(Sorted[opener].entryDate, currentTime)
    ELSE 0

\* a segment is a ClockIn or BreakEnd with a ClockOut or BreakStart as the
\* entry right after it in the sorted log
SegmentsToFollowingStop ==
    SumOver({i \in DOMAIN Sorted :
                /\ i < Len(Sorted)
                /\ StartsWork(Sorted[i]) /\ StopsWork(Sorted[i + 1])},
            [i \in DOMAIN Sorted |->
                Seconds(Sorted[i].entryDate,
                        Sorted[IF i < Len(Sorted) THEN i + 1 ELSE i].entryDate)])

\* now minus the date of the last entry when that entry starts work
SinceLastEntry ==
    IF Sorted # <<>> /\ StartsWork(Sorted[Len(Sorted)])
    THEN Seconds(Sorted[Len(Sorted)].entryDate, currentTime)
    ELSE 0

\* with the log as it was at the last recalculation, the next one gives no
\* smaller total
TotalNeverDecreases ==
    [][(/\ todaysEntries' = todaysEntries
        /\ lastStep \notin {"FetchEntriesResolved", "ClockEntriesResolved"})
          => totalWorkedSecondsToday' >= totalWorkedSecondsToday]_vars

\* C35: after each recalculation totalWorkedSecondsToday is the sum of the
\* segments that start at a ClockIn or BreakEnd and end at the next ClockOut
\* or BreakStart of the sorted log, plus now minus the start of the open
\* segment when the user is working; a ClockOut or BreakStart with no open
\* segment adds nothing; for a fixed log the total never decreases.
C35_WorkedTime ==
    /\ [](Evaluated => totalWorkedSecondsToday = SegmentsToNextStop + OpenSegment)
    /\ TotalNeverDecreases

\* C35 as amended: a ClockIn or BreakEnd counts only up to the entry right
\* after it, and only when that entry is a ClockOut or BreakStart: a ClockIn
\* or BreakEnd that follows another one starts the segment anew and the time
\* before it is not counted.  The open segment starts at the last entry.
\* For a fixed log the total never decreases.
C35_WorkedTimeAdjacent ==
    /\ [](Evaluated =>
            totalWorkedSecondsToday = SegmentsToFollowingStop + SinceLastEntry)
    /\ TotalNeverDecreases

\* a morning segment of one minute, a break, and an open segment since 00:02
\* that has lasted ninety seconds
C35_Witness ==
    /\ Evaluated /\ Len(Sorted) = 3
    /\ Sorted[1].entryType = "ClockIn" /\ Sorted[1].entryDate = 0
    /\ Sorted[2].entryType = "BreakStart" /\ Sorted[2].entryDate = 60 * 1000
    /\ Sorted[3].entryType = "BreakEnd" /\ Sorted[3].entryDate = 2 * 60 * 1000
    /\ currentTime = 3 * 60 * 1000 + 30 * 1000
    /\ totalWorkedSecondsToday = 60 + 90

-----------------------------------------------------------------------------
(* The activity page: the paginated history                                *)
(*                                                                         *)
(* fetchActivitiesHistory is memoised on [dateRange] alone, so the         *)
(* isHistoryLoading it tests is the value of the render in which the       *)
(* callback was last created: loadingSeenByFetch.  The value is taken      *)
(* anew only when the period changes.  refreshTableData is memoised on     *)
(* fetchActivitiesHistory and the handlers and the next prop of            *)
(* InfiniteScroll are created on every render, so all of them reach the    *)
(* callback of the latest period.                                          *)

\* requests the history may issue before the page is left
MaxHistoryRequests == 4

\* the periods the date picker offers
DateRanges == {1, 2}

\* totalPages as the API reports it for a period
TotalPagesOf(range) == IF range = DefaultRange THEN 2 ELSE 1

\* response.data.$values for a page of a period: the rows of a page are
\* one item, a page past the last one is empty
PageValues(range, page) ==
    IF page <= TotalPagesOf(range) THEN <<[range |-> range, page |-> page]>>
    ELSE <<>>

\* fetchActivitiesHistory(page, replaceData) up to its await, called on a
\* callback that closed over sawLoading and over the period range
fetchActivitiesHistory(sawLoading, range, page, replaceData) ==
    /\ lastHistoryCall' = Some([whileLoading |-> historyRequests # {},
                                issued |-> ~sawLoading])
    /\ IF sawLoading
       THEN UNCHANGED <<isHistoryLoading, historyError, historyRequests,
                        historyIssued>>
       ELSE /\ isHistoryLoading' = TRUE
            /\ historyError' = None
            /\ historyIssued' = historyIssued + 1
            /\ historyRequests' = historyRequests \cup
                 {HistoryRequest(historyIssued + 1, range, page, replaceData)}

\* refreshTableData of the render whose callback closed over sawLoading
refreshTableData(sawLoading, range) ==
    /\ activitiesHistory' = <<>>
    /\ historyCurrentPage' = 1
    /\ historyHasMore' = TRUE
    /\ fetchActivitiesHistory(sawLoading, range, 1, TRUE)
    /\ UNCHANGED historyTotalPages

\* the date picker sets a period: the render creates the callback anew,
\* closing over the isHistoryLoading of that render, and the effect on
\* [dateRange] calls refreshTableData
handleDateRangeChange ==
    /\ historyIssued < MaxHistoryRequests
    /\ \E range \in DateRanges :
          /\ dateRange' = range
          /\ loadingSeenByFetch' = isHistoryLoading
          /\ refreshTableData(isHistoryLoading, range)
    /\ UNCHANGED <<clockingPage, coverageVars>>

\* handleStartActivity, handleFinishActivity or handleRestartActivity after
\* its request resolved: each ends with refreshTableData()
ActivityActionResolved ==
    /\ historyIssued < MaxHistoryRequests
    /\ refreshTableData(loadingSeenByFetch, dateRange)
    /\ UNCHANGED <<dateRange, loadingSeenByFetch, clockingPage, coverageVars>>

\* InfiniteScroll calls next, which it does only while hasMore holds
ScrollNext ==
    /\ historyIssued < MaxHistoryRequests
    /\ historyHasMore
    /\ fetchActivitiesHistory(loadingSeenByFetch, dateRange,
                              historyCurrentPage + 1, FALSE)
    /\ UNCHANGED <<dateRange, loadingSeenByFetch, activitiesHistory,
                   historyCurrentPage, historyTotalPages, historyHasMore,
                   clockingPage, coverageVars>>

\* getPaginatedActivities resolves: the rest of the try block and finally
HistoryResolved ==
    /\ \E req \in historyRequests :
          /\ historyRequests' = historyRequests \ {req}
          /\ activitiesHistory' =
                IF req.replaceData THEN PageValues(req.range, req.page)
                ELSE activitiesHistory \o PageValues(req.range, req.page)
          /\ historyCurrentPage' = req.page
          /\ historyTotalPages' = TotalPagesOf(req.range)
          /\ historyHasMore' = (req.page < TotalPagesOf(req.range))
    /\ isHistoryLoading' = FALSE
    /\ UNCHANGED <<dateRange, loadingSeenByFetch, historyError, historyIssued,
                   lastHistoryCall, clockingPage, coverageVars>>

\* getPaginatedActivities rejects: catch and finally
HistoryFailed ==
    /\ \E req \in historyRequests :
          historyRequests' = historyRequests \ {req}
    /\ historyError' = Some("Falha ao carregar historico de atividades.")
    /\ historyHasMore' = FALSE
    /\ isHistoryLoading' = FALSE
    /\ UNCHANGED <<dateRange, loadingSeenByFetch, activitiesHistory,
                   historyCurrentPage, historyTotalPages, historyIssued,
                   lastHistoryCall, clockingPage, coverageVars>>

\* the activity page is open; the clocking page is not
InitActivity ==
    /\ Init
    /\ notificationPermission = "denied"

NextActivity ==
    \/ handleDateRangeChange
    \/ ActivityActionResolved
    \/ ScrollNext
    \/ HistoryResolved
    \/ HistoryFailed

SpecActivity == InitActivity /\ [][NextActivity]_vars

\* the pages the history list holds more than once
PagesHeldTwice ==
    {i \in 1..Len(activitiesHistory) :
        \E j \in 1..Len(activitiesHistory) :
            i < j /\ activitiesHistory[i] = activitiesHistory[j]}

\* C36: a call of fetchActivitiesHistory made while an earlier call is still
\* loading issues no request, so at most one history request is in flight
\* and the history list holds no page twice.
C36_SingleHistoryRequest ==
    /\ lastHistoryCall # None =>
          (lastHistoryCall[1].whileLoading => ~lastHistoryCall[1].issued)
    /\ Cardinality(historyRequests) <= 1
    /\ PagesHeldTwice = {}

-----------------------------------------------------------------------------
(* The coverage report page: the periodic refresh                          *)
(*                                                                         *)
(* refreshCurrentDayData is memoised on [dateRange, error] and the         *)
(* interval effect on [dateRange, refreshCurrentDayData], so the interval  *)
(* is set up anew with each change of error and its callback tests the     *)
(* error of the latest render.                                             *)

\* requests the page may issue before it is left
MaxReportRequests == 4

\* the working days a report may hold, as numbers in date order
ReportDays == 1..3

\* formatDateForAPI(new Date()) as refreshCurrentDayData reads it
todayStr == 3

\* the answers of the API differ in their figures: each is told by a number
ReportVersions == 1..2

DailyReport(day, version) == [workingDay |-> day, version |-> version]

\* b.workingDay - a.workingDay <= 0: a stays before b
InsertByWorkingDay(sorted, daily) ==
    LET before == {i \in 1..Len(sorted) :
                     \A j \in 1..i : sorted[j].workingDay >= daily.workingDay}
        k == Cardinality(before)
    IN SubSeq(sorted, 1, k) \o <<daily>> \o SubSeq(sorted, k + 1, Len(sorted))

\* dailyValues.sort((a, b) => b.workingDay - a.workingDay): the latest day
\* first, equal days in their order
RECURSIVE SortByWorkingDay(_)
SortByWorkingDay(dailyValues) ==
    IF dailyValues = <<>> THEN <<>>
    ELSE InsertByWorkingDay(
             SortByWorkingDay(SubSeq(dailyValues, 1, Len(dailyValues) - 1)),
             dailyValues[Len(dailyValues)])

RECURSIVE DailyReportsOf(_, _)
DailyReportsOf(days, version) ==
    IF days = {} THEN <<>>
    ELSE LET day == CHOOSE d \in days : \A e \in days : e >= d
         IN Append(DailyReportsOf(days \ {day}, version),
                   DailyReport(day, version))

\* what getCoverageReport may resolve with: summary totals and the daily
\* reports of some days, the latest day first
CoverageReports ==
    {[totals |-> version,
      dailyReports |-> SortByWorkingDay(DailyReportsOf(days, version))] :
        days \in SUBSET ReportDays, version \in ReportVersions}

\* an update that takes the new data whole, whatever the page holds
RefreshedReport_TakesAll(currentData, newData) == Some(newData)

\* the functional update of setReportData in refreshCurrentDayData
RefreshedReport(currentData, newData) ==
    IF currentData = None THEN Some(newData)
    ELSE LET old == currentData[1].dailyReports
             found == {i \in 1..Len(newData.dailyReports) :
                         newData.dailyReports[i].workingDay = todayStr}
         IN IF found = {} THEN currentData
            ELSE LET newDailyReportForToday ==
                         newData.dailyReports[CHOOSE i \in found :
                                                 \A j \in found : i <= j]
                     replaced ==
                         [i \in 1..Len(old) |->
                             IF old[i].workingDay = todayStr
                             THEN newDailyReportForToday ELSE old[i]]
                     updatedDailyValues ==
                         IF \E i \in 1..Len(old) : old[i].workingDay = todayStr
                         THEN replaced
                         ELSE SortByWorkingDay(
                                  Append(replaced, newDailyReportForToday))
                 IN Some([totals |-> newData.totals,
                          dailyReports |-> updatedDailyValues])

\* refreshCurrentDayData up to its await, for an error as its callback
\* closed over it
refreshCurrentDayData(errorSeen) ==
    IF errorSeen # None
    THEN UNCHANGED <<isRefreshing, reportRequests, reportIssued>>
    ELSE /\ isRefreshing' = TRUE
         /\ reportIssued' = reportIssued + 1
         /\ reportRequests' = reportRequests \cup
                                {ReportRequest(reportIssued + 1, "refresh")}

\* the interval of one minute fires; it exists while today is in the period
RefreshTick ==
    /\ isTodayInRange
    /\ reportIssued < MaxReportRequests
    /\ refreshCurrentDayData(reportError)
    /\ UNCHANGED <<reportData, reportError, isTodayInRange, lastRefresh,
                   clockingPage, activityVars>>

\* the date picker sets a period: fetchReport runs up to its await and the
\* interval effect runs anew
ReportRangeChange ==
    /\ reportIssued < MaxReportRequests
    /\ \E inRange \in BOOLEAN : isTodayInRange' = inRange
    /\ reportError' = None
    /\ reportIssued' = reportIssued + 1
    /\ reportRequests' = reportRequests \cup
                           {ReportRequest(reportIssued + 1, "fetchReport")}
    /\ UNCHANGED <<reportData, isRefreshing, lastRefresh, clockingPage,
                   activityVars>>

\* getCoverageReport resolves
ReportResolved ==
    /\ \E req \in reportRequests, data \in CoverageReports :
          /\ reportRequests' = reportRequests \ {req}
          /\ IF req.kind = "fetchReport"
             THEN /\ reportData' = Some(data)
                  /\ lastRefresh' = None
                  /\ UNCHANGED isRefreshing
             ELSE /\ reportData' = RefreshedReport(reportData, data)
                  /\ lastRefresh' = Some([before |-> reportData,
                                          newData |-> data])
                  /\ isRefreshing' = FALSE
    /\ UNCHANGED <<reportError, isTodayInRange, reportIssued, clockingPage,
                   activityVars>>

\* getCoverageReport rejects
ReportFailed ==
    /\ \E req \in reportRequests :
          /\ reportRequests' = reportRequests \ {req}
          /\ IF req.kind = "fetchReport"
             THEN /\ reportError' = Some("Falha ao carregar o relatorio.")
                  /\ reportData' = None
                  /\ lastRefresh' = None
                  /\ UNCHANGED isRefreshing
             ELSE /\ reportError' = Some("Falha ao atualizar dados.")
                  /\ isRefreshing' = FALSE
                  /\ UNCHANGED <<reportData, lastRefresh>>
    /\ UNCHANGED <<isTodayInRange, reportIssued, clockingPage, activityVars>>

\* the coverage page is open; the clocking page is not
InitCoverage ==
    /\ Init
    /\ notificationPermission = "denied"

NextCoverage ==
    \/ RefreshTick
    \/ ReportRangeChange
    \/ ReportResolved
    \/ ReportFailed

SpecCoverage == InitCoverage /\ [][NextCoverage]_vars

\* the daily reports of a report state, none when there is no report
DailyValues(data) == IF data = None THEN <<>> ELSE data[1].dailyReports

IsToday(daily) == daily.workingDay = todayStr
IsOtherDay(daily) == daily.workingDay # todayStr

TodayIn(dailyValues) == SelectSeq(dailyValues, IsToday)
OtherDaysIn(dailyValues) == SelectSeq(dailyValues, IsOtherDay)

\* the report state was last written by a refresh that resolved
Refreshed == lastRefresh # None

\* what a refresh whose new data holds today leaves behind
TodayReplaced(before, newData) ==
    /\ reportData # None
    /\ TodayIn(DailyValues(reportData)) # <<>>
    /\ \A i \in 1..Len(TodayIn(DailyValues(reportData))) :
          TodayIn(DailyValues(reportData))[i] = TodayIn(newData.dailyReports)[1]
    /\ reportData[1].totals = newData.totals
    /\ OtherDaysIn(DailyValues(reportData)) = OtherDaysIn(DailyValues(before))

\* the refresh requests in flight
RefreshRequests == {req \in reportRequests : req.kind = "refresh"}

\* no refresh request is made while an error is displayed
NoRefreshUnderError ==
    [][reportError # None => RefreshRequests' \subseteq RefreshRequests]_vars

\* C37: a refresh replaces (or adds) the daily report of today and takes
\* the summary totals from the new data, leaving the reports of all other
\* days as they were; new data without a report for today leave the report
\* state unchanged; no refresh request is made while an error is displayed.
C37_RefreshTouchesOnlyToday ==
    /\ [](Refreshed =>
            IF TodayIn(lastRefresh[1].newData.dailyReports) # <<>>
            THEN TodayReplaced(lastRefresh[1].before, lastRefresh[1].newData)
            ELSE reportData = lastRefresh[1].before)
    /\ NoRefreshUnderError

\* C37 as amended: the above for a refresh that finds a report on the page;
\* a refresh that finds none takes the new data whole.
C37_RefreshOfLoadedReport ==
    /\ [](Refreshed =>
            IF lastRefresh[1].before = None
            THEN reportData = Some(lastRefresh[1].newData)
            ELSE IF TodayIn(lastRefresh[1].newData.dailyReports) # <<>>
            THEN TodayReplaced(lastRefresh[1].before, lastRefresh[1].newData)
            ELSE reportData = lastRefresh[1].before)
    /\ NoRefreshUnderError

\* a refresh added today's report to a report of two earlier days and took
\* the totals of the new data
C37_Witness ==
    /\ Refreshed
    /\ lastRefresh[1].before # None
    /\ Len(DailyValues(lastRefresh[1].before)) = 2
    /\ TodayIn(DailyValues(lastRefresh[1].before)) = <<>>
    /\ lastRefresh[1].before[1].totals = 1
    /\ lastRefresh[1].newData.totals = 2
    /\ Len(DailyValues(reportData)) = 3
    /\ DailyValues(reportData)[1] = DailyReport(todayStr, 2)
    /\ reportData[1].totals = 2

====
